---- MODULE Spec2Model ----
(***************************************************************************)
(* Model of the bedrock-models lookup library (packages/typescript index)  *)
(* and of the catalog it reads.  Strings the code computes with (model     *)
(* ids, inference-type tags, returned identifiers) are sequences of        *)
(* one-character strings, so that toLowerCase and template concatenation   *)
(* are modelled by what they do.  Region codes are only ever compared, so  *)
(* they stay atomic strings.                                               *)
(*                                                                         *)
(* The module also models the explorer page (apps/docs app.js), which      *)
(* loads the same catalog document: its globals allModels, filteredModels, *)
(* CRIS_PROFILE_REGIONS, selectedRegion, selectedType, map and mapMarkers, *)
(* the DOM state its handlers change, and its pending timers.  A behaviour *)
(* is a run of one program: of the library (page = "none") or of the page. *)
(***************************************************************************)
EXTENDS Integers, Sequences, FiniteSets, TLC

VARIABLES
    data,                  \* library: the imported catalog, id -> record
    op, argId, argType, argRegion, ret,   \* the last call and its outcome
    lastCris,              \* history: the latest crisModelId call
    page,                  \* "none", or the page: "loading", "ready", "error"
    json,                  \* page: the fetched document, a list of entries
    allModels, filteredModels, CRIS_PROFILE_REGIONS,
    selectedRegion, selectedType, searchInput,
    dropdownOpen,          \* the 'open' class of the two filter dropdowns
    mapModal, regionsModal,  \* the modals: 'show' class and style.display
    timers,                \* pending setTimeout callbacks, oldest first
    map, mapMarkers,
    shown                  \* the profileData the markers' click handlers hold

callVars == <<op, argId, argType, argRegion, ret>>

catalogVars == <<json, allModels, CRIS_PROFILE_REGIONS>>
filterVars == <<filteredModels, selectedRegion, selectedType, searchInput, dropdownOpen>>
modalVars == <<mapModal, regionsModal, timers>>
mapVars == <<map, mapMarkers, shown>>

pageVars == <<page, catalogVars, filterVars, modalVars, mapVars>>

vars == <<data, callVars, lastCris, pageVars>>

(***************************************************************************)
(* Bounds and the finite universes the catalog is drawn from.              *)
(***************************************************************************)
MaxTags == 2
MaxOtherTags == 1

US == <<"U", "S">>
EU == <<"E", "U">>
GLOBAL == <<"G", "L", "O", "B", "A", "L">>
ON_DEMAND == <<"O", "N", "_", "D", "E", "M", "A", "N", "D">>
PROVISIONED == <<"P", "R", "O", "V", "I", "S", "I", "O", "N", "E", "D">>

CA == <<"C", "A">>
JP == <<"J", "P">>
AU == <<"A", "U">>
APAC == <<"A", "P", "A", "C">>
AP == <<"A", "P">>

\* the tags the catalogs of the model are built from
TagUniverse == {US, EU, AP, GLOBAL, ON_DEMAND, PROVISIONED}

Regions == {"us-east-1", "eu-west-2"}

\* the longest region list of a topology entry
MaxTargets == 2

\* the regions the page's catalogs mention
AppRegions == {"eu-west-2", "us-east-1", "us-west-2"}

IdSonnet == <<"a", ".", "c", "3">>
IdNova == <<"z", ".", "n", "2">>
IdInvalid == <<"i", ".", "m">>
IdTitan == <<"t", ".", "e">>
CallIds == {IdSonnet, IdNova, IdInvalid}

\* JS arrays without repeated elements, of length at most n, over the set S
RECURSIVE ListsOver(_, _)
ListsOver(S, n) ==
    IF n = 0 THEN {<<>>}
    ELSE LET shorter == ListsOver(S, n - 1)
         IN shorter \cup {Append(l, x) : l \in shorter, x \in S}

Range(l) == {l[i] : i \in 1..Len(l)}

DistinctListsOver(S, n) == {l \in ListsOver(S, n) : Cardinality(Range(l)) = Len(l)}

TagLists == DistinctListsOver(TagUniverse, MaxTags)

OtherTagLists == DistinctListsOver(TagUniverse, MaxOtherTags)

\* inference_types objects: any subset of the regions as keys, a tag list each
InferenceTypeMaps ==
    UNION {{f \in [keys -> TagLists \cup OtherTagLists] :
              /\ "us-east-1" \in keys => f["us-east-1"] \in TagLists
              /\ "eu-west-2" \in keys => f["eu-west-2"] \in OtherTagLists} :
           keys \in SUBSET Regions}

RegionLists == DistinctListsOver(Regions, Cardinality(Regions))

\* ModelDataMap entry: { regions: string[]; inference_types: {[region]: string[]} }
ModelRecords == [regions : RegionLists, inference_types : InferenceTypeMaps]

\* the record of the second model of the catalog
NovaRecord ==
    [regions |-> <<"eu-west-2">>,
     inference_types |-> ("eu-west-2" :> <<GLOBAL>>)]

Catalogs == {(IdSonnet :> r) @@ (IdNova :> NovaRecord) : r \in ModelRecords}

(***************************************************************************)
(* JavaScript primitives used by the library.                              *)
(***************************************************************************)
UpperToLower ==
    [c \in {"A", "B", "C", "D", "E", "F", "G", "H", "I", "J", "K", "L", "M",
            "N", "O", "P", "Q", "R", "S", "T", "U", "V", "W", "X", "Y", "Z"} |->
        CASE c = "A" -> "a" [] c = "B" -> "b" [] c = "C" -> "c" [] c = "D" -> "d"
          [] c = "E" -> "e" [] c = "F" -> "f" [] c = "G" -> "g" [] c = "H" -> "h"
          [] c = "I" -> "i" [] c = "J" -> "j" [] c = "K" -> "k" [] c = "L" -> "l"
          [] c = "M" -> "m" [] c = "N" -> "n" [] c = "O" -> "o" [] c = "P" -> "p"
          [] c = "Q" -> "q" [] c = "R" -> "r" [] c = "S" -> "s" [] c = "T" -> "t"
          [] c = "U" -> "u" [] c = "V" -> "v" [] c = "W" -> "w" [] c = "X" -> "x"
          [] c = "Y" -> "y" [] c = "Z" -> "z"]

\* String.prototype.toLowerCase
toLowerCase(s) ==
    [i \in 1..Len(s) |-> IF s[i] \in DOMAIN UpperToLower THEN UpperToLower[s[i]] ELSE s[i]]

\* Array.prototype.includes
includes(list, x) == \E i \in 1..Len(list) : list[i] = x

\* a function's outcome: a returned value or a thrown Error with its message parts
Return(v) == [kind |-> "return", value |-> v]
Throw(e) == [kind |-> "throw", error |-> e]

NotFoundError(id) == [msg |-> "not found in bedrock_models.json", id |-> id]

NotAvailableError(id, region, regions) ==
    [msg |-> "is not available in region", id |-> id, region |-> region,
     regions |-> regions]

NoCrisError(id, region, inferenceTypes) ==
    [msg |-> "does not support CRIS in region", id |-> id, region |-> region,
     types |-> inferenceTypes]

NoGlobalError(id, region, inferenceTypes) ==
    [msg |-> "does not support global inference profile in region", id |-> id,
     region |-> region, types |-> inferenceTypes]

\* model.inference_types[region] || []
typesAt(model, region) ==
    IF region \in DOMAIN model.inference_types THEN model.inference_types[region]
    ELSE <<>>

(***************************************************************************)
(* The exported lookups.                                                   *)
(***************************************************************************)
\* variant: availability read off the keys of inference_types
isModelAvailable_fromTypeKeys(id, region) ==
    IF id \notin DOMAIN data THEN Return(FALSE)
    ELSE Return(region \in DOMAIN data[id].inference_types)

isModelAvailable(id, region) ==
    IF id \notin DOMAIN data THEN Return(FALSE)
    ELSE Return(includes(data[id].regions, region))

\* variant: an empty list stands in for an unknown model
getAvailableRegions_emptyForUnknown(id) ==
    IF id \notin DOMAIN data THEN Return(<<>>)
    ELSE Return(data[id].regions)

getAvailableRegions(id) ==
    IF id \notin DOMAIN data THEN Throw(NotFoundError(id))
    ELSE Return(data[id].regions)

\* variant: GLOBAL looked up at any region of the model
hasGlobalProfile_anyRegion(id, region) ==
    IF id \notin DOMAIN data THEN Return(FALSE)
    ELSE Return(\E r \in DOMAIN data[id].inference_types :
                    includes(data[id].inference_types[r], GLOBAL))

hasGlobalProfile(id, region) ==
    IF id \notin DOMAIN data THEN Return(FALSE)
    ELSE Return(includes(typesAt(data[id], region), GLOBAL))

\* variant: GLOBAL missing from the prefix list
getInferenceProfiles_geoOnly(id, region) ==
    IF id \notin DOMAIN data THEN Return(<<>>)
    ELSE LET inferenceTypes == typesAt(data[id], region)
             profilePrefixes == <<US, EU, CA, JP, AU, APAC, AP>>
             IsPrefix(t) == includes(profilePrefixes, t)
         IN Return(SelectSeq(inferenceTypes, IsPrefix))

getInferenceProfiles(id, region) ==
    IF id \notin DOMAIN data THEN Return(<<>>)
    ELSE LET inferenceTypes == typesAt(data[id], region)
             profilePrefixes == <<US, EU, CA, JP, AU, APAC, AP, GLOBAL>>
             IsPrefix(t) == includes(profilePrefixes, t)
         IN Return(SelectSeq(inferenceTypes, IsPrefix))

\* variant: tags served for the regions of the regions list only
getInferenceTypes_listedOnly(id, region) ==
    IF id \notin DOMAIN data THEN Return(<<>>)
    ELSE IF includes(data[id].regions, region) THEN Return(typesAt(data[id], region))
         ELSE Return(<<>>)

getInferenceTypes(id, region) ==
    IF id \notin DOMAIN data THEN Return(<<>>)
    ELSE Return(typesAt(data[id], region))

\* variant: GLOBAL tested before the geo profiles
crisModelId_globalFirst(id, region) ==
    IF id \notin DOMAIN data THEN Throw(NotFoundError(id))
    ELSE IF ~includes(data[id].regions, region)
         THEN Throw(NotAvailableError(id, region, data[id].regions))
    ELSE LET inferenceTypes == typesAt(data[id], region)
             IsGeoProfile(t) == t # GLOBAL /\ t # ON_DEMAND /\ t # PROVISIONED
             availableGeoProfiles == SelectSeq(inferenceTypes, IsGeoProfile)
         IN IF includes(inferenceTypes, GLOBAL)
            THEN Return(<<"g", "l", "o", "b", "a", "l">> \o <<".">> \o id)
            ELSE IF Len(availableGeoProfiles) > 0
                 THEN Return(toLowerCase(availableGeoProfiles[1]) \o <<".">> \o id)
                 ELSE Throw(NoCrisError(id, region, inferenceTypes))

\* variant: PROVISIONED not excluded from the geo profiles
crisModelId_provisionedAsGeo(id, region) ==
    IF id \notin DOMAIN data THEN Throw(NotFoundError(id))
    ELSE IF ~includes(data[id].regions, region)
         THEN Throw(NotAvailableError(id, region, data[id].regions))
    ELSE LET inferenceTypes == typesAt(data[id], region)
             IsGeoProfile(t) == t # GLOBAL /\ t # ON_DEMAND
             availableGeoProfiles == SelectSeq(inferenceTypes, IsGeoProfile)
         IN IF Len(availableGeoProfiles) > 0
            THEN Return(toLowerCase(availableGeoProfiles[1]) \o <<".">> \o id)
            ELSE IF includes(inferenceTypes, GLOBAL)
                 THEN Return(<<"g", "l", "o", "b", "a", "l">> \o <<".">> \o id)
                 ELSE Throw(NoCrisError(id, region, inferenceTypes))

\* variant: ON_DEMAND not excluded from the geo profiles
crisModelId_onDemandAsGeo(id, region) ==
    IF id \notin DOMAIN data THEN Throw(NotFoundError(id))
    ELSE IF ~includes(data[id].regions, region)
         THEN Throw(NotAvailableError(id, region, data[id].regions))
    ELSE LET inferenceTypes == typesAt(data[id], region)
             IsGeoProfile(t) == t # GLOBAL /\ t # PROVISIONED
             availableGeoProfiles == SelectSeq(inferenceTypes, IsGeoProfile)
         IN IF Len(availableGeoProfiles) > 0
            THEN Return(toLowerCase(availableGeoProfiles[1]) \o <<".">> \o id)
            ELSE IF includes(inferenceTypes, GLOBAL)
                 THEN Return(<<"g", "l", "o", "b", "a", "l">> \o <<".">> \o id)
                 ELSE Throw(NoCrisError(id, region, inferenceTypes))

\* variant: the regions list is not consulted
crisModelId_noAvailabilityCheck(id, region) ==
    IF id \notin DOMAIN data THEN Throw(NotFoundError(id))
    ELSE LET inferenceTypes == typesAt(data[id], region)
             IsGeoProfile(t) == t # GLOBAL /\ t # ON_DEMAND /\ t # PROVISIONED
             availableGeoProfiles == SelectSeq(inferenceTypes, IsGeoProfile)
         IN IF Len(availableGeoProfiles) > 0
            THEN Return(toLowerCase(availableGeoProfiles[1]) \o <<".">> \o id)
            ELSE IF includes(inferenceTypes, GLOBAL)
                 THEN Return(<<"g", "l", "o", "b", "a", "l">> \o <<".">> \o id)
                 ELSE Throw(NoCrisError(id, region, inferenceTypes))

\* variant: the last geo profile of the list is taken
crisModelId_lastGeo(id, region) ==
    IF id \notin DOMAIN data THEN Throw(NotFoundError(id))
    ELSE IF ~includes(data[id].regions, region)
         THEN Throw(NotAvailableError(id, region, data[id].regions))
    ELSE LET inferenceTypes == typesAt(data[id], region)
             IsGeoProfile(t) == t # GLOBAL /\ t # ON_DEMAND /\ t # PROVISIONED
             availableGeoProfiles == SelectSeq(inferenceTypes, IsGeoProfile)
         IN IF Len(availableGeoProfiles) > 0
            THEN Return(toLowerCase(availableGeoProfiles[Len(availableGeoProfiles)])
                        \o <<".">> \o id)
            ELSE IF includes(inferenceTypes, GLOBAL)
                 THEN Return(<<"g", "l", "o", "b", "a", "l">> \o <<".">> \o id)
                 ELSE Throw(NoCrisError(id, region, inferenceTypes))

\* variant: the result of an immediately preceding crisModelId call is reused
crisModelId_staleResult(id, region) ==
    IF op = "crisModelId" THEN ret
    ELSE IF id \notin DOMAIN data THEN Throw(NotFoundError(id))
    ELSE IF ~includes(data[id].regions, region)
         THEN Throw(NotAvailableError(id, region, data[id].regions))
    ELSE LET inferenceTypes == typesAt(data[id], region)
             IsGeoProfile(t) == t # GLOBAL /\ t # ON_DEMAND /\ t # PROVISIONED
             availableGeoProfiles == SelectSeq(inferenceTypes, IsGeoProfile)
         IN IF Len(availableGeoProfiles) > 0
            THEN Return(toLowerCase(availableGeoProfiles[1]) \o <<".">> \o id)
            ELSE IF includes(inferenceTypes, GLOBAL)
                 THEN Return(<<"g", "l", "o", "b", "a", "l">> \o <<".">> \o id)
                 ELSE Throw(NoCrisError(id, region, inferenceTypes))

crisModelId(id, region) ==
    IF id \notin DOMAIN data THEN Throw(NotFoundError(id))
    ELSE IF ~includes(data[id].regions, region)
         THEN Throw(NotAvailableError(id, region, data[id].regions))
    ELSE LET inferenceTypes == typesAt(data[id], region)
             IsGeoProfile(t) == t # GLOBAL /\ t # ON_DEMAND /\ t # PROVISIONED
             availableGeoProfiles == SelectSeq(inferenceTypes, IsGeoProfile)
         IN IF Len(availableGeoProfiles) > 0
            THEN Return(toLowerCase(availableGeoProfiles[1]) \o <<".">> \o id)
            ELSE IF includes(inferenceTypes, GLOBAL)
                 THEN Return(<<"g", "l", "o", "b", "a", "l">> \o <<".">> \o id)
                 ELSE Throw(NoCrisError(id, region, inferenceTypes))

\* variant: the no-global error raised before the model is looked up
globalModelId_noLookup(id, region) ==
    IF ~hasGlobalProfile(id, region).value
    THEN IF id \in DOMAIN data /\ ~includes(data[id].regions, region)
         THEN Throw(NotAvailableError(id, region, data[id].regions))
         ELSE Throw(NoGlobalError(id, region, <<>>))
    ELSE Return(<<"g", "l", "o", "b", "a", "l">> \o <<".">> \o id)

\* variant: the GLOBAL tag is not required
globalModelId_noTagCheck(id, region) ==
    IF id \notin DOMAIN data THEN Throw(NotFoundError(id))
    ELSE IF ~includes(data[id].regions, region)
         THEN Throw(NotAvailableError(id, region, data[id].regions))
         ELSE Return(<<"g", "l", "o", "b", "a", "l">> \o <<".">> \o id)

globalModelId(id, region) ==
    IF ~hasGlobalProfile(id, region).value
    THEN IF id \notin DOMAIN data THEN Throw(NotFoundError(id))
         ELSE IF ~includes(data[id].regions, region)
              THEN Throw(NotAvailableError(id, region, data[id].regions))
              ELSE Throw(NoGlobalError(id, region, typesAt(data[id], region)))
    ELSE Return(<<"g", "l", "o", "b", "a", "l">> \o <<".">> \o id)

(***************************************************************************)
(* The explorer page: values and functions over one model object           *)
(* { id, regions, inference_types, inferenceProfile? }.                    *)
(***************************************************************************)

\* a JavaScript boolean, and undefined (what ?. gives on a missing entry)
JsBool(b) == [type |-> "boolean", value |-> b]
JsUndefined == [type |-> "undefined"]

\* the value in a condition, a filter callback or under !
truthy(v) == v.type = "boolean" /\ v.value

\* Object.keys(CRIS_REGIONS)
CRIS_REGIONS == <<GLOBAL, US, EU, APAC, JP, AU, CA>>

\* inferenceProfile values: an array of regions, or an object source -> targets
FlatTopology(list) == [shape |-> "array", regions |-> list]
GeoTopology(targetsOf) == [shape |-> "object", sources |-> targetsOf]

\* Object.entries(data).map(([id, info]) => ({ id, ...info })), one element
modelObject(id, info) == [id |-> id] @@ info

\* the orders in which Object.keys / Object.values may walk an object
KeyOrders(obj) ==
    {keys \in DistinctListsOver(DOMAIN obj, Cardinality(DOMAIN obj)) :
        Len(keys) = Cardinality(DOMAIN obj)}

\* variant: a plain array push, duplicates kept
SetAdd_push(set, x) == Append(set, x)

\* Set.prototype.add on a Set kept in insertion order
SetAdd(set, x) == IF includes(set, x) THEN set ELSE Append(set, x)

RECURSIVE SetAddAll(_, _)
SetAddAll(set, items) ==
    IF items = <<>> THEN set
    ELSE SetAddAll(SetAdd(set, Head(items)), Tail(items))

hasInferenceType(model, type, region) ==
    IF region # ""
    THEN IF region \in DOMAIN model.inference_types
         THEN JsBool(includes(model.inference_types[region], type))
         ELSE JsUndefined
    ELSE JsBool(\E r \in DOMAIN model.inference_types :
                    includes(model.inference_types[r], type))

\* variant: CRIS support is read from the topology data
hasCRIS_fromTopology(model, region) ==
    IF "inferenceProfile" \in DOMAIN model
    THEN JsBool(\E profile \in DOMAIN model.inferenceProfile :
                    includes(CRIS_REGIONS, profile))
    ELSE JsBool(FALSE)

hasCRIS(model, region) ==
    LET crisTypes == CRIS_REGIONS
        someCris(types) == \E i \in 1..Len(types) : includes(crisTypes, types[i])
    IN IF region # ""
       THEN IF region \in DOMAIN model.inference_types
            THEN JsBool(someCris(model.inference_types[region]))
            ELSE JsUndefined
       ELSE JsBool(\E r \in DOMAIN model.inference_types :
                       someCris(model.inference_types[r]))

\* the page's getInferenceTypes(model); values walks inference_types in the
\* order given by keys
RECURSIVE typesOfModel(_, _, _)
typesOfModel(model, keys, types) ==
    IF keys = <<>> THEN types
    ELSE typesOfModel(model, Tail(keys),
                      SetAddAll(types, model.inference_types[Head(keys)]))

getInferenceTypesOfModel(model, keys) == typesOfModel(model, keys, <<>>)

\* the position of a region code in the order of Array.prototype.sort()
\* (by UTF-16 code units, which orders these codes alphabetically)
RegionRank ==
    ("ap-southeast-6" :> 0) @@ ("eu-west-2" :> 1) @@ ("us-east-1" :> 2) @@ ("us-west-2" :> 3)

\* sort() places x in an already sorted list
RECURSIVE insertSorted(_, _)
insertSorted(x, sorted) ==
    IF sorted = <<>> THEN <<x>>
    ELSE IF RegionRank[x] <= RegionRank[Head(sorted)] THEN <<x>> \o sorted
    ELSE <<Head(sorted)>> \o insertSorted(x, Tail(sorted))

\* variant: the list is left in insertion order
sort_insertionOrder(list) == list

RECURSIVE sort(_)
sort(list) ==
    IF list = <<>> THEN <<>> ELSE insertSorted(Head(list), sort(Tail(list)))

hasProfile(model, profile) ==
    /\ "inferenceProfile" \in DOMAIN model
    /\ profile \in DOMAIN model.inferenceProfile

\* regionSets[profile] after the models have been walked in order: absent,
\* a Set, or an object source -> Set.  The entries of different profiles do
\* not touch each other, so each is followed on its own.  Adding an array to
\* an entry that is an object calls .add on a plain object, a TypeError;
\* adding an object to an entry that is a Set only puts properties on the
\* Set, which the conversion never reads.
RECURSIVE regionSetOf(_, _, _)
regionSetOf(models, profile, entry) ==
    IF models = <<>> \/ entry.shape = "TypeError" THEN entry
    ELSE IF ~hasProfile(Head(models), profile)
    THEN regionSetOf(Tail(models), profile, entry)
    ELSE LET topology == Head(models).inferenceProfile[profile]
             merged ==
                 IF topology.shape = "array"
                 THEN IF entry.shape = "object" THEN [shape |-> "TypeError"]
                      ELSE [shape |-> "set",
                            items |-> SetAddAll(IF entry.shape = "set" THEN entry.items
                                                ELSE <<>>,
                                                topology.regions)]
                 ELSE IF entry.shape = "set" THEN entry
                      ELSE LET old == IF entry.shape = "object" THEN entry.sources
                                      ELSE <<>>
                               new == topology.sources
                           IN [shape |-> "object",
                               sources |->
                                   [source \in DOMAIN old \cup DOMAIN new |->
                                       SetAddAll(IF source \in DOMAIN old
                                                 THEN old[source] ELSE <<>>,
                                                 IF source \in DOMAIN new
                                                 THEN new[source] ELSE <<>>)]]
         IN regionSetOf(Tail(models), profile, merged)

\* populateCrisRegions(): the value assigned to CRIS_PROFILE_REGIONS, or the
\* TypeError thrown before the assignment
populateCrisRegions(models) ==
    LET profiles == UNION {DOMAIN models[i].inferenceProfile :
                             i \in {k \in 1..Len(models) :
                                      "inferenceProfile" \in DOMAIN models[k]}}
        regionSets == [profile \in profiles |->
                          regionSetOf(models, profile, [shape |-> "none"])]
    IN IF \E profile \in profiles : regionSets[profile].shape = "TypeError"
       THEN Throw([msg |-> "TypeError: regionSets[profile].add is not a function"])
       ELSE Return([profile \in profiles |->
                      IF regionSets[profile].shape = "set"
                      THEN FlatTopology(sort(regionSets[profile].items))
                      ELSE GeoTopology([source \in DOMAIN regionSets[profile].sources |->
                                           sort(regionSets[profile].sources[source])])])


\* the region codes that have an entry in REGION_LOCATIONS, among those used
REGION_LOCATIONS == {"eu-west-2", "us-east-1", "us-west-2"}

\* setTimeout delays, in milliseconds
MapDelay == 100
HideDelay == 300

\* String.prototype.includes
stringIncludes(s, t) ==
    \E i \in 0..(Len(s) - Len(t)) : SubSeq(s, i + 1, i + Len(t)) = t

\* allModels.findIndex(m => m.id === id), 0 when there is none
findModel(models, id) ==
    IF \E i \in 1..Len(models) : models[i].id = id
    THEN CHOOSE i \in 1..Len(models) :
             /\ models[i].id = id
             /\ \A j \in 1..(i - 1) : models[j].id # id
    ELSE 0

\* the list filterModels() assigns to filteredModels
filterModels(models, searchValue, region, type) ==
    LET searchTerm == toLowerCase(searchValue)
        keep(model) ==
            LET matchesSearch == stringIncludes(toLowerCase(model.id), searchTerm)
                matchesRegion == region = "" \/ includes(model.regions, region)
                matchesType ==
                    CASE type = "global-cris" ->
                             truthy(hasInferenceType(model, GLOBAL, region))
                      [] type = "cris" -> truthy(hasCRIS(model, region))
                      [] type = "on-demand" ->
                             truthy(hasInferenceType(model, ON_DEMAND, region))
                      [] OTHER -> TRUE
            IN matchesSearch /\ matchesRegion /\ matchesType
    IN SelectSeq(models, keep)

\* renderModels(): the (type, model id) pairs of the CRIS badges that carry
\* an onclick handler
crisBadges(models, region) ==
    UNION {{<<type, models[i].id>> :
              type \in {t \in Range(CRIS_REGIONS) :
                          /\ \E r \in DOMAIN models[i].inference_types :
                                 includes(models[i].inference_types[r], t)
                          /\ ~(region # ""
                                /\ ~truthy(hasInferenceType(models[i], t, region)))}} :
           i \in 1..Len(models)}

\* initMap(), map.setView([20, 0], 2) and map.fitBounds(bounds)
\* map.layers are the markers on the map, in the order they were added
initMap(m) ==
    IF m.kind = "null"
    THEN [kind |-> "map", view |-> "world", bounds |-> {}, layers |-> <<>>]
    ELSE m
setView(m) == [m EXCEPT !.view = "world", !.bounds = {}]
fitBounds(m, bounds) == [m EXCEPT !.view = "fit", !.bounds = bounds]

\* the markers stay on the map
removeLayers_none(m, markers) == m

\* markers.forEach(marker => map.removeLayer(marker))
removeLayers(m, markers) ==
    LET onMap(layer) == layer \notin Range(markers)
    IN [m EXCEPT !.layers = SelectSeq(@, onMap)]

\* marker.addTo(map) for each marker of the list
addLayers(m, markers) == [m EXCEPT !.layers = @ \o markers]

\* the markers updateMapState(profileData, activeSource) leaves in
\* mapMarkers; keys is Object.keys(profileData), "" stands for null
updateMapState(profileData, keys, activeSource) ==
    LET located(region) == region \in REGION_LOCATIONS
        sources == SelectSeq(keys, located)
        drawn(target) == target # activeSource /\ located(target)
        targets == IF activeSource # "" /\ activeSource \in DOMAIN profileData
                   THEN SelectSeq(profileData[activeSource], drawn)
                   ELSE <<>>
    IN [i \in 1..Len(sources) |->
           [region |-> sources[i], role |-> "source",
            selected |-> sources[i] = activeSource, click |-> TRUE]]
       \o [i \in 1..Len(targets) |->
              [region |-> targets[i], role |-> "target", selected |-> FALSE,
               click |-> targets[i] \in DOMAIN profileData]]

\* bounds after one extend per marker
boundsOf(markers) == {markers[i].region : i \in 1..Len(markers)}

\* the coverage entry drawn as it is, whatever the model
filteredProfileData_unfiltered(profileData, models, crisType, modelId) == profileData

\* the profileData the timer callback of showRegionMap draws: the coverage
\* entry, its regions or its sources filtered by the model's own tags when
\* the model is found
filteredProfileData(profileData, models, crisType, modelId) ==
    LET found == findModel(models, modelId)
        reachable(region) == truthy(hasInferenceType(models[found], crisType, region))
    IN IF found = 0 THEN profileData
       ELSE IF profileData.shape = "array"
       THEN FlatTopology(SelectSeq(profileData.regions, reachable))
       ELSE GeoTopology([source \in {r \in DOMAIN profileData.sources : reachable(r)} |->
                            profileData.sources[source]])

\* no call made yet
NoCall ==
    /\ op = "none"
    /\ argId = <<>>
    /\ argType = <<>>
    /\ argRegion = ""
    /\ ret = [kind |-> "none"]

\* the module-level state of app.js before init() has run
PageGlobals ==
    /\ allModels = <<>>
    /\ filteredModels = <<>>
    /\ CRIS_PROFILE_REGIONS = <<>>
    /\ selectedRegion = ""
    /\ selectedType = ""
    /\ searchInput = <<>>
    /\ dropdownOpen = [region |-> FALSE, type |-> FALSE]
    /\ mapModal = [show |-> FALSE, display |-> "none"]
    /\ regionsModal = [show |-> FALSE, display |-> "none"]
    /\ timers = <<>>
    /\ map = [kind |-> "null"]
    /\ mapMarkers = <<>>
    /\ shown = [kind |-> "none"]

\* a process that only imports the library: there is no page
NoPage ==
    /\ page = "none"
    /\ json = <<>>
    /\ PageGlobals

Init ==
    /\ data \in Catalogs
    /\ NoCall
    /\ lastCris = [kind |-> "none"]
    /\ NoPage

\* a call of an exported function: its arguments and its outcome are recorded
Invoke(name, id, type, region, outcome) ==
    /\ page = "none"
    /\ op' = name
    /\ argId' = id
    /\ argType' = type
    /\ argRegion' = region
    /\ ret' = outcome
    /\ UNCHANGED <<data, pageVars>>

Call(name, id, region, outcome) ==
    /\ Invoke(name, id, <<>>, region, outcome)
    /\ UNCHANGED lastCris

CallIsModelAvailable ==
    \E id \in CallIds, region \in Regions :
        Call("isModelAvailable", id, region, isModelAvailable(id, region))

CallGetAvailableRegions ==
    \E id \in CallIds : Call("getAvailableRegions", id, "", getAvailableRegions(id))

CallHasGlobalProfile ==
    \E id \in CallIds, region \in Regions :
        Call("hasGlobalProfile", id, region, hasGlobalProfile(id, region))

CallGetInferenceProfiles ==
    \E id \in CallIds, region \in Regions :
        Call("getInferenceProfiles", id, region, getInferenceProfiles(id, region))

CallGetInferenceTypes ==
    \E id \in CallIds, region \in Regions :
        Call("getInferenceTypes", id, region, getInferenceTypes(id, region))

CallCrisModelId ==
    \E id \in CallIds, region \in Regions :
        Call("crisModelId", id, region, crisModelId(id, region))

CallGlobalModelId ==
    \E id \in CallIds, region \in Regions :
        Call("globalModelId", id, region, globalModelId(id, region))

Next ==
    \/ CallIsModelAvailable
    \/ CallGetAvailableRegions
    \/ CallHasGlobalProfile
    \/ CallGetInferenceProfiles
    \/ CallGetInferenceTypes
    \/ CallCrisModelId
    \/ CallGlobalModelId

Spec == Init /\ [][Next]_vars

(***************************************************************************)
(* The library again, with the latest crisModelId call kept as history so  *)
(* that a repeated call can be compared with the earlier one.  The         *)
(* catalogs are a small family: what matters here is the sequence of       *)
(* calls.                                                                  *)
(***************************************************************************)
DetTagLists == {<<>>, <<US>>, <<GLOBAL>>, <<ON_DEMAND>>, <<GLOBAL, US>>}

DetCatalogs ==
    {(IdSonnet :> r) @@ (IdNova :> NovaRecord) :
        r \in [regions : RegionLists,
               inference_types : UNION {[keys -> DetTagLists] : keys \in SUBSET Regions}]}

InitDet ==
    /\ data \in DetCatalogs
    /\ NoCall
    /\ lastCris = [kind |-> "none"]
    /\ NoPage

\* a lookup other than crisModelId: it stands between two crisModelId calls
DetLookup(name, id, region, outcome) ==
    /\ Invoke(name, id, <<>>, region, outcome)
    /\ lastCris' = IF lastCris.kind = "call" THEN [lastCris EXCEPT !.between = 1]
                   ELSE lastCris

DetOtherLookup ==
    \E id \in CallIds, region \in Regions :
        \/ DetLookup("isModelAvailable", id, region, isModelAvailable(id, region))
        \/ DetLookup("getAvailableRegions", id, "", getAvailableRegions(id))
        \/ DetLookup("hasGlobalProfile", id, region, hasGlobalProfile(id, region))
        \/ DetLookup("getInferenceProfiles", id, region, getInferenceProfiles(id, region))
        \/ DetLookup("getInferenceTypes", id, region, getInferenceTypes(id, region))
        \/ DetLookup("globalModelId", id, region, globalModelId(id, region))

\* crisModelId; the history notes whether it repeats the previous crisModelId
\* call, what that call gave and whether other lookups ran in between
DetCrisModelId ==
    \E id \in CallIds, region \in Regions :
        LET outcome == crisModelId(id, region)
            repeats == lastCris.kind = "call" /\ lastCris.id = id
                       /\ lastCris.region = region
        IN /\ Invoke("crisModelId", id, <<>>, region, outcome)
           /\ lastCris' = [kind |-> "call", id |-> id, region |-> region,
                           ret |-> outcome, between |-> 0, repeats |-> repeats,
                           earlier |-> IF repeats THEN lastCris.ret
                                       ELSE [kind |-> "none"],
                           gap |-> IF repeats THEN lastCris.between ELSE 0]

NextDet == DetOtherLookup \/ DetCrisModelId

SpecDet == InitDet /\ [][NextDet]_vars

(***************************************************************************)
(* The page's tag functions called on the models of a catalog, the way the *)
(* verification script calls them: the catalog is loaded, a model is       *)
(* looked up and the function is applied to it.                            *)
(***************************************************************************)
SonnetProfile == (US :> GeoTopology("us-east-1" :> <<"us-east-1", "eu-west-2">>))

TypeCatalogs ==
    Catalogs \cup
    {(IdSonnet :> (data_[IdSonnet] @@ [inferenceProfile |-> SonnetProfile]))
        @@ (IdNova :> NovaRecord) : data_ \in Catalogs}

TypeArgs == {GLOBAL, US, ON_DEMAND}

InitTypes ==
    /\ data \in TypeCatalogs
    /\ NoCall
    /\ lastCris = [kind |-> "none"]
    /\ NoPage

CallHasInferenceType ==
    \E id \in DOMAIN data, type \in TypeArgs, region \in Regions \cup {""} :
        /\ Invoke("hasInferenceType", id, type, region,
                  Return(hasInferenceType(modelObject(id, data[id]), type, region)))
        /\ UNCHANGED lastCris

CallHasCRIS ==
    \E id \in DOMAIN data, region \in Regions \cup {""} :
        /\ Invoke("hasCRIS", id, <<>>, region,
                  Return(hasCRIS(modelObject(id, data[id]), region)))
        /\ UNCHANGED lastCris

CallGetInferenceTypesOfModel ==
    \E id \in DOMAIN data :
        \E keys \in KeyOrders(data[id].inference_types) :
            /\ Invoke("getInferenceTypes(model)", id, <<>>, "",
                      Return(getInferenceTypesOfModel(modelObject(id, data[id]), keys)))
            /\ UNCHANGED lastCris

NextTypes == CallHasInferenceType \/ CallHasCRIS \/ CallGetInferenceTypesOfModel

SpecTypes == InitTypes /\ [][NextTypes]_vars

(***************************************************************************)
(* The page loading its catalog: init() after the theme is set.  The       *)
(* catalogs have three models with every combination of a GLOBAL list and  *)
(* a US source map, in every order of the document's keys.  A profile name *)
(* has one shape throughout a catalog.                                     *)
(***************************************************************************)
FlatLists == DistinctListsOver(AppRegions, MaxTargets)

UsSourceMaps ==
    {<<>>,
     "us-east-1" :> <<"us-west-2">>,
     "us-east-1" :> <<"us-west-2", "us-east-1">>,
     "us-west-2" :> <<"us-east-1">>,
     ("us-east-1" :> <<"us-east-1">>) @@ ("us-west-2" :> <<"us-west-2", "us-east-1">>)}

InferenceProfiles ==
    {GLOBAL :> FlatTopology(list) : list \in FlatLists}
    \cup {US :> GeoTopology(m) : m \in UsSourceMaps}
    \cup {(GLOBAL :> FlatTopology(list)) @@ (US :> GeoTopology(m)) :
            list \in {<<"us-west-2", "eu-west-2">>, <<"us-east-1">>},
            m \in {"us-east-1" :> <<"us-west-2">>, "us-west-2" :> <<"us-east-1">>}}

AggBase ==
    [regions |-> <<"us-east-1">>,
     inference_types |-> ("us-east-1" :> <<GLOBAL, US>>)]

AggRecords == {AggBase} \cup {AggBase @@ [inferenceProfile |-> ip] : ip \in InferenceProfiles}

AggIds == {IdSonnet, IdNova, IdTitan}

\* the fetched document as its entries, in the order of its keys
AggCatalogs ==
    {[i \in 1..3 |-> <<ids[i], infos[i]>>] :
        ids \in {o \in DistinctListsOver(AggIds, 3) : Len(o) = 3},
        infos \in [1..3 -> AggRecords]}

Loading(catalogs) ==
    /\ data = <<>>
    /\ NoCall
    /\ lastCris = [kind |-> "none"]
    /\ page = "loading"
    /\ json \in catalogs
    /\ PageGlobals

InitAgg == Loading(AggCatalogs)

\* init() once the document has arrived
Load ==
    /\ page = "loading"
    /\ LET models == [i \in 1..Len(json) |-> modelObject(json[i][1], json[i][2])]
           populated == populateCrisRegions(models)
       IN /\ allModels' = models
          /\ IF populated.kind = "return"
             THEN /\ CRIS_PROFILE_REGIONS' = populated.value
                  /\ filteredModels' = models
                  /\ page' = "ready"
             ELSE /\ page' = "error"
                  /\ UNCHANGED <<CRIS_PROFILE_REGIONS, filteredModels>>
    /\ UNCHANGED <<data, callVars, lastCris, json, selectedRegion, selectedType,
                   searchInput, dropdownOpen, modalVars, mapVars>>

\* init() when the document cannot be fetched or parsed
LoadFails ==
    /\ page = "loading"
    /\ page' = "error"
    /\ UNCHANGED <<data, callVars, lastCris, catalogVars, filterVars, modalVars, mapVars>>

NextAgg == Load \/ LoadFails

SpecAgg == InitAgg /\ [][NextAgg]_vars

(***************************************************************************)
(* The page in use: the filters, the two modals with their timers, and the *)
(* map.  Time is not counted: a pending callback may run once every        *)
(* callback that was scheduled before it with the same or a shorter delay  *)
(* has run, which are the orders the delays allow.                         *)
(***************************************************************************)
MaxTimers == 2

\* a model with US at two sources
RecordUsPair ==
    [regions |-> <<"us-east-1", "us-west-2">>,
     inference_types |-> ("us-east-1" :> <<ON_DEMAND, US>>) @@ ("us-west-2" :> <<US>>),
     inferenceProfile |->
         (US :> GeoTopology(("us-east-1" :> <<"us-east-1", "eu-west-2">>)
                            @@ ("us-west-2" :> <<"us-west-2">>)))]

\* a model with US and GLOBAL at one region; a GLOBAL region without location
RecordUsGlobal ==
    [regions |-> <<"us-east-1">>,
     inference_types |-> ("us-east-1" :> <<US, GLOBAL>>),
     inferenceProfile |->
         (US :> GeoTopology("us-east-1" :> <<"us-west-2", "us-east-1">>))
         @@ (GLOBAL :> FlatTopology(<<"us-east-1", "ap-southeast-6">>))]

\* a model with GLOBAL at one of its two regions
RecordGlobalEu ==
    [regions |-> <<"eu-west-2", "us-east-1">>,
     inference_types |-> ("eu-west-2" :> <<GLOBAL>>) @@ ("us-east-1" :> <<ON_DEMAND>>),
     inferenceProfile |-> (GLOBAL :> FlatTopology(<<"us-west-2", "eu-west-2">>))]

\* a model with a CRIS tag and no topology data
RecordEuOnly ==
    [regions |-> <<"eu-west-2">>,
     inference_types |-> ("eu-west-2" :> <<EU, PROVISIONED>>)]

AppRecords == {RecordUsPair, RecordUsGlobal, RecordGlobalEu, RecordEuOnly}

AppCatalogs ==
    {<<<<IdSonnet, first>>, <<IdNova, second>>>> :
        first \in AppRecords, second \in AppRecords}

\* a catalog of each kind, for runs that use every control of the page
FewCatalogs ==
    {<<<<IdSonnet, first>>, <<IdNova, RecordGlobalEu>>>> :
        first \in {RecordUsPair, RecordUsGlobal}}

SearchTerms == {<<>>, <<"C", "3">>}

TypeOptions == {"", "global-cris", "cris", "on-demand"}

\* populateRegionFilter(): the values of the region options
RegionOptions ==
    {""} \cup UNION {Range(allModels[i].regions) : i \in 1..Len(allModels)}

InitApp == Loading(AppCatalogs)

\* variant: the filtered list replaces the catalog list
ApplyFilter_overCatalog(searchValue, region, type, open) ==
    /\ page = "ready"
    /\ searchInput' = searchValue
    /\ selectedRegion' = region
    /\ selectedType' = type
    /\ dropdownOpen' = open
    /\ allModels' = filterModels(allModels, searchValue, region, type)
    /\ filteredModels' = allModels'
    /\ UNCHANGED <<data, callVars, lastCris, page, json, CRIS_PROFILE_REGIONS,
                   modalVars, mapVars>>

\* a filter control has changed: its value is stored and filterModels() runs
ApplyFilter(searchValue, region, type, open) ==
    /\ page = "ready"
    /\ searchInput' = searchValue
    /\ selectedRegion' = region
    /\ selectedType' = type
    /\ dropdownOpen' = open
    /\ filteredModels' = filterModels(allModels, searchValue, region, type)
    /\ UNCHANGED <<data, callVars, lastCris, page, catalogVars, modalVars, mapVars>>

\* 'input' on #searchInput
SearchInput ==
    \E value \in SearchTerms :
        ApplyFilter(value, selectedRegion, selectedType, dropdownOpen)

\* click on an option of the region dropdown
SelectRegion ==
    \E value \in RegionOptions :
        ApplyFilter(searchInput, value, selectedType,
                    [dropdownOpen EXCEPT !.region = FALSE])

\* click on an option of the type dropdown
SelectType ==
    \E value \in TypeOptions :
        ApplyFilter(searchInput, selectedRegion, value,
                    [dropdownOpen EXCEPT !.type = FALSE])

\* setTimeout(callback, delay)
setTimeout(pending, callback, delay) ==
    Append(pending, callback @@ [delay |-> delay])

\* click on a CRIS badge: showRegionMap up to its setTimeout
ShowRegionMap ==
    /\ page = "ready"
    /\ Len(timers) < MaxTimers
    /\ \E badge \in crisBadges(filteredModels, selectedRegion) :
           timers' = setTimeout(timers, [kind |-> "draw", crisType |-> badge[1],
                                         modelId |-> badge[2]], MapDelay)
    /\ mapModal' = [show |-> TRUE, display |-> "flex"]
    /\ UNCHANGED <<data, callVars, lastCris, page, catalogVars, filterVars,
                   regionsModal, mapVars>>

\* click on the region count of a card
ShowAllRegions ==
    /\ page = "ready"
    /\ filteredModels # <<>>
    /\ regionsModal' = [show |-> TRUE, display |-> "flex"]
    /\ UNCHANGED <<data, callVars, lastCris, page, catalogVars, filterVars,
                   mapModal, timers, mapVars>>

closeModal(modal) == [modal EXCEPT !.show = FALSE]

\* click on the backdrop of #mapModal
CloseMapModal ==
    /\ page = "ready"
    /\ Len(timers) < MaxTimers
    /\ mapModal' = closeModal(mapModal)
    /\ timers' = setTimeout(timers, [kind |-> "hide", modal |-> "mapModal"], HideDelay)
    /\ UNCHANGED <<data, callVars, lastCris, page, catalogVars, filterVars,
                   regionsModal, mapVars>>

\* click on the backdrop of #regionsModal
CloseRegionsModal ==
    /\ page = "ready"
    /\ Len(timers) < MaxTimers
    /\ regionsModal' = closeModal(regionsModal)
    /\ timers' = setTimeout(timers, [kind |-> "hide", modal |-> "regionsModal"], HideDelay)
    /\ UNCHANGED <<data, callVars, lastCris, page, catalogVars, filterVars,
                   mapModal, mapVars>>

\* click on a close button, or Escape: both modals are closed
CloseModals ==
    /\ page = "ready"
    /\ Len(timers) + 1 < MaxTimers
    /\ mapModal' = closeModal(mapModal)
    /\ regionsModal' = closeModal(regionsModal)
    /\ timers' = setTimeout(setTimeout(timers, [kind |-> "hide", modal |-> "mapModal"],
                                       HideDelay),
                            [kind |-> "hide", modal |-> "regionsModal"], HideDelay)
    /\ UNCHANGED <<data, callVars, lastCris, page, catalogVars, filterVars, mapVars>>

\* the callback may be the next one to run
due(i) == \A j \in 1..(i - 1) : timers[j].delay > timers[i].delay

without(pending, i) == SubSeq(pending, 1, i - 1) \o SubSeq(pending, i + 1, Len(pending))

\* the callback of closeMapModal / closeRegionsModal
HideTimerFires ==
    \E i \in 1..Len(timers) :
        /\ due(i)
        /\ timers[i].kind = "hide"
        /\ timers' = without(timers, i)
        /\ IF timers[i].modal = "mapModal"
           THEN /\ mapModal' = [mapModal EXCEPT !.display = "none"]
                /\ UNCHANGED regionsModal
           ELSE /\ regionsModal' = [regionsModal EXCEPT !.display = "none"]
                /\ UNCHANGED mapModal
        /\ UNCHANGED <<data, callVars, lastCris, page, catalogVars, filterVars, mapVars>>

\* the callback of showRegionMap.  map.view and map.bounds are the view
\* asked for last: the world view of setView([20, 0], 2), or the bounds
\* handed to fitBounds.  The order of the sources is the key order of the
\* coverage entry, any order here.
MapTimerFires ==
    \E i \in 1..Len(timers) :
        /\ due(i)
        /\ timers[i].kind = "draw"
        /\ timers' = without(timers, i)
        /\ LET crisType == timers[i].crisType
               modelId == timers[i].modelId
               created == removeLayers(initMap(map), mapMarkers)
           IN IF crisType \notin DOMAIN CRIS_PROFILE_REGIONS
              THEN /\ map' = setView(created)
                   /\ mapMarkers' = <<>>
                   /\ shown' = [kind |-> "none"]
              ELSE LET profileData ==
                           filteredProfileData(CRIS_PROFILE_REGIONS[crisType],
                                               allModels, crisType, modelId)
                   IN IF profileData.shape = "array"
                      THEN LET located(region) == region \in REGION_LOCATIONS
                               regions == SelectSeq(profileData.regions, located)
                               markers == [k \in 1..Len(regions) |->
                                              [region |-> regions[k], role |-> "region",
                                               selected |-> FALSE, click |-> FALSE]]
                           IN /\ mapMarkers' = markers
                              /\ map' = IF Len(markers) > 0
                                        THEN fitBounds(addLayers(created, markers),
                                                       boundsOf(markers))
                                        ELSE setView(created)
                              /\ shown' = [kind |-> "flat", crisType |-> crisType,
                                           modelId |-> modelId,
                                           profileData |-> profileData,
                                           keys |-> <<>>, activeSource |-> ""]
                      ELSE \E keys \in KeyOrders(profileData.sources) :
                               LET initialSource ==
                                       IF /\ selectedRegion # ""
                                          /\ selectedRegion \in DOMAIN profileData.sources
                                       THEN selectedRegion ELSE ""
                                   markers == updateMapState(profileData.sources, keys,
                                                             initialSource)
                               IN /\ mapMarkers' = markers
                                  \* updateMapState fits its own bounds; the
                                  \* callback then fits the bounds it created
                                  \* itself, which no marker has extended
                                  /\ map' = IF Len(markers) > 0
                                            THEN fitBounds(
                                                     fitBounds(addLayers(created, markers),
                                                               boundsOf(markers)),
                                                     {})
                                            ELSE setView(created)
                                  /\ shown' = [kind |-> "geo", crisType |-> crisType,
                                               modelId |-> modelId,
                                               profileData |-> profileData,
                                               keys |-> keys,
                                               activeSource |-> initialSource]
        /\ UNCHANGED <<data, callVars, lastCris, page, catalogVars, filterVars,
                       mapModal, regionsModal>>

\* click on a marker that has a click handler: updateMapState(profileData, region)
MarkerClick ==
    \E i \in 1..Len(mapMarkers) :
        /\ mapMarkers[i].click
        /\ mapModal.display = "flex"
        /\ LET markers == updateMapState(shown.profileData.sources, shown.keys,
                                         mapMarkers[i].region)
               drawn == addLayers(removeLayers(map, mapMarkers), markers)
           IN /\ mapMarkers' = markers
              /\ map' = IF Len(markers) > 0 THEN fitBounds(drawn, boundsOf(markers))
                        ELSE drawn
              /\ shown' = [shown EXCEPT !.activeSource = mapMarkers[i].region]
        /\ UNCHANGED <<data, callVars, lastCris, page, catalogVars, filterVars, modalVars>>

\* the page with the region filter and the map modal in use
NextMap ==
    \/ Load
    \/ LoadFails
    \/ SelectRegion
    \/ ShowRegionMap
    \/ CloseMapModal
    \/ HideTimerFires
    \/ MapTimerFires
    \/ MarkerClick

SpecMap == InitApp /\ [][NextMap]_vars

\* the page with its filters, both modals and the map in use
NextApp ==
    \/ Load
    \/ LoadFails
    \/ SearchInput
    \/ SelectRegion
    \/ SelectType
    \/ ShowRegionMap
    \/ ShowAllRegions
    \/ CloseMapModal
    \/ CloseRegionsModal
    \/ CloseModals
    \/ HideTimerFires
    \/ MapTimerFires
    \/ MarkerClick

\* the page with both modals in use
NextModals ==
    \/ Load
    \/ LoadFails
    \/ ShowRegionMap
    \/ ShowAllRegions
    \/ CloseMapModal
    \/ CloseRegionsModal
    \/ CloseModals
    \/ HideTimerFires
    \/ MapTimerFires

SpecModals == InitApp /\ [][NextModals]_vars

\* the button opens or closes its own dropdown and leaves the other as it is
toggleDropdown_ownOnly(open, name, other) == [open EXCEPT ![name] = ~@]

\* click handler of a dropdown button: toggle the class open of its own
\* container, remove it from the other
toggleDropdown(open, name, other) == [open EXCEPT ![name] = ~@, ![other] = FALSE]

\* click on #regionButton
ClickRegionButton ==
    /\ page = "ready"
    /\ dropdownOpen' = toggleDropdown(dropdownOpen, "region", "type")
    /\ UNCHANGED <<data, callVars, lastCris, page, catalogVars, filteredModels,
                   selectedRegion, selectedType, searchInput, modalVars, mapVars>>

\* click on #typeButton
ClickTypeButton ==
    /\ page = "ready"
    /\ dropdownOpen' = toggleDropdown(dropdownOpen, "type", "region")
    /\ UNCHANGED <<data, callVars, lastCris, page, catalogVars, filteredModels,
                   selectedRegion, selectedType, searchInput, modalVars, mapVars>>

\* click inside #regionDropdown or #typeDropdown, not on an option: the
\* event is stopped there and nothing changes
ClickInsideDropdown ==
    /\ page = "ready"
    /\ \E name \in {"region", "type"} : dropdownOpen[name]
    /\ UNCHANGED vars

\* click anywhere else in the document
ClickDocument ==
    /\ page = "ready"
    /\ dropdownOpen' = [region |-> FALSE, type |-> FALSE]
    /\ UNCHANGED <<data, callVars, lastCris, page, catalogVars, filteredModels,
                   selectedRegion, selectedType, searchInput, modalVars, mapVars>>

\* the page with its two dropdowns in use
NextDropdowns ==
    \/ Load
    \/ LoadFails
    \/ ClickRegionButton
    \/ ClickTypeButton
    \/ SelectRegion
    \/ SelectType
    \/ ClickInsideDropdown
    \/ ClickDocument

SpecDropdowns == InitApp /\ [][NextDropdowns]_vars

\* the page with its three filter controls in use
NextFilter ==
    \/ Load
    \/ LoadFails
    \/ SearchInput
    \/ SelectRegion
    \/ SelectType

SpecFilter == InitApp /\ [][NextFilter]_vars

(***************************************************************************)
(* The copy of the page script under docs/.  It has the same globals and   *)
(* filter controls, no map and no coverage map, and its hasInferenceType   *)
(* and hasCRIS take the model only.                                        *)
(***************************************************************************)
docsHasInferenceType(model, type) ==
    \E r \in DOMAIN model.inference_types : includes(model.inference_types[r], type)

docsHasCRIS(model) ==
    LET crisTypes == CRIS_REGIONS
    IN \E r \in DOMAIN model.inference_types :
           \E i \in 1..Len(model.inference_types[r]) :
               includes(crisTypes, model.inference_types[r][i])

\* filterModels() of the copy
docsFilterModels(models, searchValue, region, type) ==
    LET searchTerm == toLowerCase(searchValue)
        keep(model) ==
            LET matchesSearch == stringIncludes(toLowerCase(model.id), searchTerm)
                matchesRegion == region = "" \/ includes(model.regions, region)
                matchesType ==
                    CASE type = "global-cris" -> docsHasInferenceType(model, GLOBAL)
                      [] type = "cris" -> docsHasCRIS(model)
                      [] type = "on-demand" -> docsHasInferenceType(model, ON_DEMAND)
                      [] type = "provisioned" -> docsHasInferenceType(model, PROVISIONED)
                      [] OTHER -> TRUE
            IN matchesSearch /\ matchesRegion /\ matchesType
    IN SelectSeq(models, keep)

DocsTypeOptions == TypeOptions \cup {"provisioned"}

\* init() of the copy once the document has arrived
DocsLoad ==
    /\ page = "loading"
    /\ allModels' = [i \in 1..Len(json) |-> modelObject(json[i][1], json[i][2])]
    /\ filteredModels' = allModels'
    /\ page' = "ready"
    /\ UNCHANGED <<data, callVars, lastCris, json, CRIS_PROFILE_REGIONS, selectedRegion,
                   selectedType, searchInput, dropdownOpen, modalVars, mapVars>>

DocsApplyFilter(searchValue, region, type, open) ==
    /\ page = "ready"
    /\ searchInput' = searchValue
    /\ selectedRegion' = region
    /\ selectedType' = type
    /\ dropdownOpen' = open
    /\ filteredModels' = docsFilterModels(allModels, searchValue, region, type)
    /\ UNCHANGED <<data, callVars, lastCris, page, catalogVars, modalVars, mapVars>>

DocsSearchInput ==
    \E value \in SearchTerms :
        DocsApplyFilter(value, selectedRegion, selectedType, dropdownOpen)

DocsSelectRegion ==
    \E value \in RegionOptions :
        DocsApplyFilter(searchInput, value, selectedType,
                        [dropdownOpen EXCEPT !.region = FALSE])

DocsSelectType ==
    \E value \in DocsTypeOptions :
        DocsApplyFilter(searchInput, selectedRegion, value,
                        [dropdownOpen EXCEPT !.type = FALSE])

NextDocs ==
    \/ DocsLoad
    \/ LoadFails
    \/ DocsSearchInput
    \/ DocsSelectRegion
    \/ DocsSelectType

SpecDocs == InitApp /\ [][NextDocs]_vars

(***************************************************************************)
(* Every operation of the repository: a run is a process that imports the  *)
(* library and calls it, or the page being loaded and used.                *)
(***************************************************************************)
InitAll == InitDet \/ Loading(FewCatalogs)

NextAll == Next \/ NextApp

SpecAll == InitAll /\ [][NextAll]_vars

(***************************************************************************)
(* The library over a document in which the first record lacks regions or  *)
(* lacks inference_types.  The import does not look at the records; each   *)
(* function reads the fields it needs when it is called, and reading a     *)
(* property of an absent field is a TypeError.                             *)
(***************************************************************************)
MalformedRecords ==
    {[regions |-> regions] : regions \in RegionLists}
    \cup {[inference_types |-> types] :
            types \in UNION {[keys -> DetTagLists] : keys \in SUBSET Regions}}

MalformedCatalogs ==
    {(IdSonnet :> r) @@ (IdNova :> NovaRecord) : r \in MalformedRecords}

InitMalformed ==
    /\ data \in MalformedCatalogs
    /\ NoCall
    /\ lastCris = [kind |-> "none"]
    /\ NoPage

PropertyTypeError == [msg |-> "TypeError: Cannot read properties of undefined"]

\* the call reads a property of model.regions or of model.inference_types
\* while the record has no such field
readsAbsentField(name, id, region) ==
    LET model == data[id]
        has(field) == field \in DOMAIN model
    IN /\ id \in DOMAIN data
       /\ CASE name = "isModelAvailable" -> ~has("regions")
            [] name = "getAvailableRegions" -> FALSE
            [] name \in {"hasGlobalProfile", "getInferenceProfiles", "getInferenceTypes"} ->
                   ~has("inference_types")
            [] name = "crisModelId" ->
                   \/ ~has("regions")
                   \/ includes(model.regions, region) /\ ~has("inference_types")
            [] name = "globalModelId" ->
                   \/ ~has("inference_types")
                   \/ ~includes(typesAt(model, region), GLOBAL) /\ ~has("regions")

\* the outcome of a call over such a document
onDocument(name, id, region, outcome) ==
    IF readsAbsentField(name, id, region) THEN Throw(PropertyTypeError)
    ELSE IF name = "getAvailableRegions" /\ id \in DOMAIN data
            /\ "regions" \notin DOMAIN data[id]
    THEN Return(JsUndefined)
    ELSE outcome

LookupOnDocument(name, id, region, outcome) ==
    Call(name, id, region, onDocument(name, id, region, outcome))

DocIsModelAvailable ==
    \E id \in CallIds, region \in Regions :
        LookupOnDocument("isModelAvailable", id, region, isModelAvailable(id, region))

DocGetAvailableRegions ==
    \E id \in CallIds :
        LookupOnDocument("getAvailableRegions", id, "", getAvailableRegions(id))

DocHasGlobalProfile ==
    \E id \in CallIds, region \in Regions :
        LookupOnDocument("hasGlobalProfile", id, region, hasGlobalProfile(id, region))

DocGetInferenceProfiles ==
    \E id \in CallIds, region \in Regions :
        LookupOnDocument("getInferenceProfiles", id, region,
                         getInferenceProfiles(id, region))

DocGetInferenceTypes ==
    \E id \in CallIds, region \in Regions :
        LookupOnDocument("getInferenceTypes", id, region, getInferenceTypes(id, region))

DocCrisModelId ==
    \E id \in CallIds, region \in Regions :
        LookupOnDocument("crisModelId", id, region, crisModelId(id, region))

DocGlobalModelId ==
    \E id \in CallIds, region \in Regions :
        LookupOnDocument("globalModelId", id, region, globalModelId(id, region))

NextMalformed ==
    \/ DocIsModelAvailable
    \/ DocGetAvailableRegions
    \/ DocHasGlobalProfile
    \/ DocGetInferenceProfiles
    \/ DocGetInferenceTypes
    \/ DocCrisModelId
    \/ DocGlobalModelId

SpecMalformed == InitMalformed /\ [][NextMalformed]_vars

(***************************************************************************)
(* The resolver, the profile lookup and the page's hasCRIS over one        *)
(* catalog whose tags go beyond the lists the code names: MX is a tag that *)
(* no list of the code mentions.                                           *)
(***************************************************************************)
MX == <<"M", "X">>

WideTagUniverse == {US, AP, MX, GLOBAL, ON_DEMAND}

WideTagLists == DistinctListsOver(WideTagUniverse, MaxTags)

WideCatalogs ==
    {(IdSonnet :> [regions |-> regions,
                   inference_types |-> IF present THEN "us-east-1" :> types ELSE <<>>])
        @@ (IdNova :> NovaRecord) :
        regions \in RegionLists, types \in WideTagLists, present \in BOOLEAN}

InitTags ==
    /\ data \in WideCatalogs
    /\ NoCall
    /\ lastCris = [kind |-> "none"]
    /\ NoPage

NextTags == CallCrisModelId \/ CallGetInferenceProfiles \/ CallHasCRIS

SpecTags == InitTags /\ [][NextTags]_vars

(***************************************************************************)
(* Vocabulary of the properties: the call recorded in the state, read      *)
(* against the catalog.                                                    *)
(***************************************************************************)
Known == argId \in DOMAIN data

Listed == Known /\ argRegion \in Range(data[argId].regions)

RecordedTags ==
    IF Known /\ argRegion \in DOMAIN data[argId].inference_types
    THEN Range(data[argId].inference_types[argRegion])
    ELSE {}

GeoTags == RecordedTags \ {GLOBAL, ON_DEMAND, PROVISIONED}

GlobalPrefixed(id) == <<"g", "l", "o", "b", "a", "l", ".">> \o id

Prefixed(tag, id) == toLowerCase(tag) \o <<".">> \o id

Threw(message) == ret.kind = "throw" /\ ret.error.msg = message

\* UTF-16 code units of the characters tags are written with
CharCode ==
    [c \in DOMAIN UpperToLower \cup {"_"} |->
        CASE c = "A" -> 65 [] c = "B" -> 66 [] c = "C" -> 67 [] c = "D" -> 68
          [] c = "E" -> 69 [] c = "F" -> 70 [] c = "G" -> 71 [] c = "H" -> 72
          [] c = "I" -> 73 [] c = "J" -> 74 [] c = "K" -> 75 [] c = "L" -> 76
          [] c = "M" -> 77 [] c = "N" -> 78 [] c = "O" -> 79 [] c = "P" -> 80
          [] c = "Q" -> 81 [] c = "R" -> 82 [] c = "S" -> 83 [] c = "T" -> 84
          [] c = "U" -> 85 [] c = "V" -> 86 [] c = "W" -> 87 [] c = "X" -> 88
          [] c = "Y" -> 89 [] c = "Z" -> 90 [] c = "_" -> 95]

\* s sorts strictly before t in lexicographic order
LexLess(s, t) ==
    \/ Len(s) < Len(t) /\ \A i \in 1..Len(s) : s[i] = t[i]
    \/ \E k \in 1..Len(s) :
         /\ k <= Len(t)
         /\ \A i \in 1..(k - 1) : s[i] = t[i]
         /\ CharCode[s[k]] < CharCode[t[k]]

\* the listed tags of the recorded call, in catalog order
RecordedList ==
    IF Known /\ argRegion \in DOMAIN data[argId].inference_types
    THEN data[argId].inference_types[argRegion]
    ELSE <<>>

(***************************************************************************)
(* C1: for a model of the catalog, isModelAvailable(model, region) is true *)
(* exactly when region is a member of the model's regions list.            *)
(***************************************************************************)
C1_AvailableIffListed ==
    (op = "isModelAvailable" /\ Known) =>
        /\ ret.kind = "return"
        /\ ret.value = (argRegion \in Range(data[argId].regions))

\* an unlisted region that nevertheless is a key of inference_types: false
C1_Witness ==
    /\ op = "isModelAvailable"
    /\ Known
    /\ ~Listed
    /\ argRegion \in DOMAIN data[argId].inference_types
    /\ ret = Return(FALSE)

(***************************************************************************)
(* C2: when the tags of an available (model, region) hold a geo tag,       *)
(* crisModelId returns "<lowercased geo tag>.<id>" and never               *)
(* "global.<id>", with or without GLOBAL and wherever GLOBAL stands.       *)
(***************************************************************************)
C2_GeoTakesPriority ==
    (op = "crisModelId" /\ Listed /\ GeoTags # {}) =>
        /\ ret.kind = "return"
        /\ \E g \in GeoTags : ret.value = Prefixed(g, argId)
        /\ ret.value # GlobalPrefixed(argId)

\* GLOBAL listed before the geo tag
C2_Witness ==
    /\ op = "crisModelId"
    /\ Listed
    /\ RecordedList = <<GLOBAL, US>>
    /\ ret = Return(<<"u", "s", ".">> \o argId)

(***************************************************************************)
(* C3: when the tags of an available (model, region) hold GLOBAL and no    *)
(* geo tag, crisModelId returns exactly "global.<id>".                     *)
(***************************************************************************)
C3_GlobalFallback ==
    (op = "crisModelId" /\ Listed /\ GeoTags = {} /\ GLOBAL \in RecordedTags) =>
        ret = Return(GlobalPrefixed(argId))

C3_Witness ==
    /\ op = "crisModelId"
    /\ Listed
    /\ RecordedList = <<PROVISIONED, GLOBAL>>
    /\ ret = Return(GlobalPrefixed(argId))

(***************************************************************************)
(* C4: when the tags of an available (model, region) hold neither a geo    *)
(* tag nor GLOBAL (an empty or missing list included), crisModelId fails   *)
(* with the no-CRIS-support error and returns no identifier.               *)
(***************************************************************************)
C4_NoCrisSupport ==
    (op = "crisModelId" /\ Listed /\ GeoTags = {} /\ GLOBAL \notin RecordedTags) =>
        /\ Threw("does not support CRIS in region")
        /\ ret.error.types = RecordedList

C4_Witness ==
    /\ op = "crisModelId"
    /\ Listed
    /\ RecordedList = <<ON_DEMAND>>
    /\ Threw("does not support CRIS in region")

\* the same for a region that has no entry in inference_types at all
C4_WitnessMissingList ==
    /\ op = "crisModelId"
    /\ Listed
    /\ argRegion \notin DOMAIN data[argId].inference_types
    /\ Threw("does not support CRIS in region")

(***************************************************************************)
(* C5: for a known model and a region outside its regions list,            *)
(* crisModelId fails with the unavailable-region error, also when          *)
(* inference_types records geo or GLOBAL tags for that region.             *)
(***************************************************************************)
C5_UnavailableFirst ==
    (op = "crisModelId" /\ Known /\ ~Listed) =>
        /\ Threw("is not available in region")
        /\ ret.error.region = argRegion
        /\ ret.error.regions = data[argId].regions

C5_Witness ==
    /\ op = "crisModelId"
    /\ Known
    /\ ~Listed
    /\ RecordedList = <<US, GLOBAL>>
    /\ Threw("is not available in region")

(***************************************************************************)
(* C6 (as stated): with several geo tags, crisModelId uses the             *)
(* lexicographically smallest one as the prefix, independent of the order  *)
(* of the list.                                                            *)
(***************************************************************************)
C6_LexSmallestGeo ==
    (op = "crisModelId" /\ Listed /\ Cardinality(GeoTags) >= 2) =>
        \E g \in GeoTags :
            /\ \A h \in GeoTags \ {g} : LexLess(g, h)
            /\ ret = Return(Prefixed(g, argId))

(***************************************************************************)
(* C6 (amended): with several geo tags, crisModelId uses the geo tag that  *)
(* comes first in the catalog's list as the prefix.                        *)
(***************************************************************************)
C6_FirstListedGeo ==
    (op = "crisModelId" /\ Listed /\ Cardinality(GeoTags) >= 2) =>
        \E i \in 1..Len(RecordedList) :
            /\ RecordedList[i] \in GeoTags
            /\ \A j \in 1..(i - 1) : RecordedList[j] \notin GeoTags
            /\ ret = Return(Prefixed(RecordedList[i], argId))

\* US listed before EU: the prefix is "us" although "EU" sorts first
C6_Witness ==
    /\ op = "crisModelId"
    /\ Listed
    /\ RecordedList = <<US, EU>>
    /\ LexLess(EU, US)
    /\ ret = Return(<<"u", "s", ".">> \o argId)

(***************************************************************************)
(* C7: for a known model and a region outside its regions list,            *)
(* globalModelId fails with the unavailable-region error and never returns *)
(* an identifier, also when GLOBAL is recorded for that very region.       *)
(***************************************************************************)
C7_GlobalUnavailableFirst ==
    (op = "globalModelId" /\ Known /\ ~Listed) =>
        Threw("is not available in region")

(***************************************************************************)
(* C8: for a known model and an available region, globalModelId returns    *)
(* "global.<id>" exactly when hasGlobalProfile(model, region) is true,     *)
(* i.e. when GLOBAL is recorded for that region, and otherwise fails with  *)
(* the no-global-profile error.                                            *)
(***************************************************************************)
C8_GlobalIdIffGlobalTag ==
    (op = "globalModelId" /\ Listed) =>
        /\ hasGlobalProfile(argId, argRegion) = Return(GLOBAL \in RecordedTags)
        /\ IF GLOBAL \in RecordedTags
           THEN ret = Return(GlobalPrefixed(argId))
           ELSE Threw("does not support global inference profile in region")

\* GLOBAL recorded at another region only: the call fails
C8_Witness ==
    /\ op = "globalModelId"
    /\ Listed
    /\ GLOBAL \notin RecordedTags
    /\ \E r \in DOMAIN data[argId].inference_types :
           GLOBAL \in Range(data[argId].inference_types[r])
    /\ Threw("does not support global inference profile in region")

(***************************************************************************)
(* C9: getAvailableRegions returns the regions list of every model of the  *)
(* catalog and fails with the model-not-found error for every other id;    *)
(* an empty list never stands in for an unknown model.                     *)
(***************************************************************************)
C9_RegionsOrNotFound ==
    (op = "getAvailableRegions") =>
        IF Known
        THEN ret = Return(data[argId].regions)
        ELSE Threw("not found in bedrock_models.json") /\ ret.error.id = argId

C9_Witness ==
    /\ op = "getAvailableRegions"
    /\ ~Known
    /\ Threw("not found in bedrock_models.json")

(***************************************************************************)
(* C10 (as stated): every lookup called with a model id absent from the    *)
(* catalog fails with the model-not-found error instead of returning a     *)
(* sentinel value.                                                         *)
(***************************************************************************)
C10_UnknownAlwaysThrows ==
    (op # "none" /\ ~Known) => Threw("not found in bedrock_models.json")

(***************************************************************************)
(* C10 (amended): called with a model id absent from the catalog,          *)
(* getAvailableRegions, crisModelId and globalModelId fail with the        *)
(* model-not-found error; isModelAvailable and hasGlobalProfile return     *)
(* false; getInferenceProfiles and getInferenceTypes return an empty list. *)
(***************************************************************************)
C10_UnknownThrowsOrSentinel ==
    (op # "none" /\ ~Known) =>
        CASE op \in {"getAvailableRegions", "crisModelId", "globalModelId"} ->
                Threw("not found in bedrock_models.json") /\ ret.error.id = argId
          [] op \in {"isModelAvailable", "hasGlobalProfile"} ->
                ret = Return(FALSE)
          [] op \in {"getInferenceProfiles", "getInferenceTypes"} ->
                ret = Return(<<>>)

C10_Witness ==
    /\ op = "globalModelId"
    /\ ~Known
    /\ Threw("not found in bedrock_models.json")

\* the sentinel side of the amended statement
C10_WitnessSentinel ==
    /\ op = "getInferenceTypes"
    /\ ~Known
    /\ ret = Return(<<>>)

(***************************************************************************)
(* C11 (as stated): getInferenceProfiles(model, region) returns exactly    *)
(* the recorded tags that belong to the vocabulary US, EU, APAC, JP, AU,   *)
(* CA, GLOBAL, every other tag excluded, in the order of the catalog.      *)
(***************************************************************************)
C11_InVocabulary(t) == t \in {US, EU, APAC, JP, AU, CA, GLOBAL}

C11_ProfilesOfSpecVocabulary ==
    (op = "getInferenceProfiles" /\ Known) =>
        ret = Return(SelectSeq(RecordedList, C11_InVocabulary))

(***************************************************************************)
(* C11 (amended): getInferenceProfiles(model, region) returns exactly the  *)
(* recorded tags that belong to US, EU, CA, JP, AU, APAC, AP, GLOBAL (the  *)
(* code's list also holds AP), ON_DEMAND, PROVISIONED and every other tag  *)
(* excluded, in the order of the catalog on every call.                    *)
(***************************************************************************)
C11_InCodeVocabulary(t) == t \in {US, EU, CA, JP, AU, APAC, AP, GLOBAL}

C11_ProfilesOfCodeVocabulary ==
    (op = "getInferenceProfiles" /\ Known) =>
        /\ ret.kind = "return"
        /\ Range(ret.value) = {t \in RecordedTags : C11_InCodeVocabulary(t)}
        /\ ret.value = SelectSeq(RecordedList, C11_InCodeVocabulary)

\* AP is kept, ON_DEMAND is dropped
C11_Witness ==
    /\ op = "getInferenceProfiles"
    /\ Known
    /\ RecordedList = <<ON_DEMAND, AP>>
    /\ ret = Return(<<AP>>)

(***************************************************************************)
(* C12: with a region given, the inference-type lookup returns exactly the *)
(* tags recorded for the model at that region, and the empty list when the *)
(* model has no entry for that region.                                     *)
(***************************************************************************)
C12_TypesAtRegion ==
    (op = "getInferenceTypes" /\ Known) =>
        IF argRegion \in DOMAIN data[argId].inference_types
        THEN ret = Return(data[argId].inference_types[argRegion])
        ELSE ret = Return(<<>>)

\* tags recorded for a region missing from the regions list are still returned
C12_Witness ==
    /\ op = "getInferenceTypes"
    /\ Known
    /\ ~Listed
    /\ RecordedList = <<GLOBAL, US>>
    /\ ret = Return(<<GLOBAL, US>>)

\* no entry for the region: the empty list
C12_WitnessNoEntry ==
    /\ op = "getInferenceTypes"
    /\ Known
    /\ argRegion \notin DOMAIN data[argId].inference_types
    /\ ret = Return(<<>>)

C19_WitnessError ==
    /\ op = "crisModelId"
    /\ lastCris.kind = "call"
    /\ lastCris.repeats
    /\ lastCris.gap = 1
    /\ ret.kind = "throw"
    /\ ret = lastCris.earlier

\* the tags recorded for the called model at the regions it lists
ListedTags ==
    UNION {Range(data[argId].inference_types[r]) :
             r \in Range(data[argId].regions) \cap DOMAIN data[argId].inference_types}

\* the tags recorded for the called model under any inference_types key
AllRecordedTags ==
    UNION {Range(data[argId].inference_types[r]) : r \in DOMAIN data[argId].inference_types}

(***************************************************************************)
(* C13: with the region omitted, the inference-type lookup returns,        *)
(* without duplicates, the union of the tags of exactly the regions in the *)
(* model's regions list; a tag recorded only under an inference_types key  *)
(* that is not in regions is left out.  The code unions over every         *)
(* inference_types key instead, so this is violated.                       *)
(***************************************************************************)
C13_UnionOfListedRegions ==
    op = "getInferenceTypes(model)" =>
        /\ Range(ret.value) = ListedTags
        /\ Cardinality(Range(ret.value)) = Len(ret.value)

\* what the code computes: the union over all inference_types keys
C13_UnionOfAllKeys ==
    op = "getInferenceTypes(model)" =>
        /\ Range(ret.value) = AllRecordedTags
        /\ Cardinality(Range(ret.value)) = Len(ret.value)

\* the failing input: GLOBAL recorded only at a region the model does not list
C13_FailingInput ==
    /\ op = "getInferenceTypes(model)"
    /\ argId = IdSonnet
    /\ data[IdSonnet].regions = <<"us-east-1">>
    /\ data[IdSonnet].inference_types = ("eu-west-2" :> <<GLOBAL>>)
    /\ ret = Return(<<GLOBAL>>)

\* the tag is recorded for the called model at the called region
RecordedAtRegion ==
    /\ argRegion \in DOMAIN data[argId].inference_types
    /\ includes(data[argId].inference_types[argRegion], argType)

RecordedSomewhere ==
    \E r \in DOMAIN data[argId].inference_types :
        includes(data[argId].inference_types[r], argType)

(***************************************************************************)
(* C14: hasInferenceType(model, tag, region) with a region answers true    *)
(* exactly when the tag is recorded at that region and false otherwise     *)
(* (recorded only elsewhere, or no entry for the region); without a region *)
(* it answers true exactly when the tag is recorded at some region.  With  *)
(* no entry for the region the code answers undefined, so this is          *)
(* violated.                                                               *)
(***************************************************************************)
C14_ExistenceCheck ==
    op = "hasInferenceType" =>
        IF argRegion # ""
        THEN ret = Return(JsBool(RecordedAtRegion))
        ELSE ret = Return(JsBool(RecordedSomewhere))

\* what the code guarantees: the answer is truthy exactly in those cases
C14_TruthyIffRecorded ==
    op = "hasInferenceType" =>
        (truthy(ret.value) <=> IF argRegion # "" THEN RecordedAtRegion
                                ELSE RecordedSomewhere)

\* the failing input: the tag is recorded elsewhere, the region has no entry
C14_FailingInput ==
    /\ op = "hasInferenceType"
    /\ argId = IdNova
    /\ argType = GLOBAL
    /\ argRegion = "us-east-1"
    /\ ret = Return(JsUndefined)

\* the called model's tags, at the called region or across all regions
CalledTagSet ==
    IF argRegion # ""
    THEN IF argRegion \in DOMAIN data[argId].inference_types
         THEN Range(data[argId].inference_types[argRegion])
         ELSE {}
    ELSE AllRecordedTags

(***************************************************************************)
(* C15: hasCRIS(model, region?) is true exactly when the model's tag set   *)
(* (at the region if given, across all regions otherwise) contains one of  *)
(* GLOBAL, US, EU, APAC, JP, AU, CA; the answer is a function of           *)
(* inference_types alone, the same with and without inferenceProfile.      *)
(***************************************************************************)
C15_CrisFromTagsOnly ==
    op = "hasCRIS" =>
        /\ ret = Return(JsBool(TRUE)) <=>
               CalledTagSet \cap {GLOBAL, US, EU, APAC, JP, AU, CA} # {}
        /\ ret = Return(hasCRIS([id |-> argId,
                                 regions |-> data[argId].regions,
                                 inference_types |-> data[argId].inference_types],
                                argRegion))

\* a CRIS tag without any topology data
C15_Witness ==
    /\ op = "hasCRIS"
    /\ argId = IdSonnet
    /\ "inferenceProfile" \notin DOMAIN data[IdSonnet]
    /\ argRegion = "us-east-1"
    /\ US \in CalledTagSet
    /\ ret = Return(JsBool(TRUE))

\* topology data for US without any CRIS tag
C15_WitnessTopologyOnly ==
    /\ op = "hasCRIS"
    /\ argId = IdSonnet
    /\ "inferenceProfile" \in DOMAIN data[IdSonnet]
    /\ argRegion = ""
    /\ AllRecordedTags = {ON_DEMAND, AP}
    /\ ret = Return(JsBool(FALSE))

\* the orders in which n models can be walked
Orders(n) == {o \in DistinctListsOver(1..n, n) : Len(o) = n}

(***************************************************************************)
(* C16: populateCrisRegions yields the same Profile Coverage Map for every *)
(* permutation of the order in which the models are iterated.              *)
(***************************************************************************)
C16_OrderIndependent ==
    page = "ready" =>
        \A o \in Orders(Len(allModels)) :
            populateCrisRegions([i \in 1..Len(allModels) |-> allModels[o[i]]])
                = Return(CRIS_PROFILE_REGIONS)

\* three models contribute to one list in an order that is not the sorted one
C16_Witness ==
    /\ page = "ready"
    /\ allModels[1].id = IdTitan
    /\ hasProfile(allModels[1], GLOBAL)
    /\ allModels[1].inferenceProfile[GLOBAL].regions = <<"us-west-2">>
    /\ hasProfile(allModels[2], GLOBAL)
    /\ allModels[2].inferenceProfile[GLOBAL].regions = <<"us-east-1", "eu-west-2">>
    /\ hasProfile(allModels[3], US)
    /\ CRIS_PROFILE_REGIONS[GLOBAL] = FlatTopology(<<"eu-west-2", "us-east-1", "us-west-2">>)

\* the models that list the profile with a flat list / with a source map
FlatModels(profile) ==
    {i \in 1..Len(allModels) : /\ hasProfile(allModels[i], profile)
                               /\ allModels[i].inferenceProfile[profile].shape = "array"}

GeoModels(profile) ==
    {i \in 1..Len(allModels) : /\ hasProfile(allModels[i], profile)
                               /\ allModels[i].inferenceProfile[profile].shape = "object"}

\* strictly ascending: sorted and free of duplicates
SortedDistinct(list) ==
    \A i \in 1..Len(list) - 1 : RegionRank[list[i]] < RegionRank[list[i + 1]]

(***************************************************************************)
(* C17: after aggregation the entry of a flat-list profile contains a      *)
(* region exactly when some model lists it under that profile, the entry   *)
(* of a geo profile maps a source to a target exactly when some model      *)
(* lists that target under that profile and source, and every list is      *)
(* sorted and free of duplicates.                                          *)
(***************************************************************************)
C17_CoverageExact ==
    page = "ready" =>
        /\ DOMAIN CRIS_PROFILE_REGIONS =
               {profile \in {GLOBAL, US} : FlatModels(profile) \cup GeoModels(profile) # {}}
        /\ \A profile \in DOMAIN CRIS_PROFILE_REGIONS :
               LET entry == CRIS_PROFILE_REGIONS[profile]
               IN IF entry.shape = "array"
                  THEN /\ Range(entry.regions) =
                              UNION {Range(allModels[i].inferenceProfile[profile].regions) :
                                       i \in FlatModels(profile)}
                       /\ SortedDistinct(entry.regions)
                  ELSE /\ DOMAIN entry.sources =
                              UNION {DOMAIN allModels[i].inferenceProfile[profile].sources :
                                       i \in GeoModels(profile)}
                       /\ \A source \in DOMAIN entry.sources :
                              /\ Range(entry.sources[source]) =
                                     UNION {Range(allModels[i].inferenceProfile[profile].sources[source]) :
                                              i \in {k \in GeoModels(profile) :
                                                       source \in DOMAIN allModels[k].inferenceProfile[profile].sources}}
                              /\ SortedDistinct(entry.sources[source])

\* two models list the same target under US and us-east-1, a third adds one
C17_Witness ==
    /\ page = "ready"
    /\ \A i \in 1..3 : hasProfile(allModels[i], US)
    /\ allModels[1].inferenceProfile[US].sources = ("us-east-1" :> <<"us-west-2">>)
    /\ allModels[2].inferenceProfile[US].sources = ("us-east-1" :> <<"us-west-2", "us-east-1">>)
    /\ allModels[3].inferenceProfile[US].sources = ("us-west-2" :> <<"us-east-1">>)
    /\ CRIS_PROFILE_REGIONS[US] =
           GeoTopology(("us-east-1" :> <<"us-east-1", "us-west-2">>)
                       @@ ("us-west-2" :> <<"us-east-1">>))

\* the model of the map on display carries the displayed profile's tag at
\* the region
ShownModelReaches(region) ==
    LET found == findModel(allModels, shown.modelId)
    IN /\ found # 0
       /\ region \in DOMAIN allModels[found].inference_types
       /\ includes(allModels[found].inference_types[region], shown.crisType)

(***************************************************************************)
(* C18: the topology shown for (profile, model) contains no source and no  *)
(* target that the model cannot reach per its own inference_types: every   *)
(* source and every target of the filtered topology is a region where the  *)
(* model carries the profile's tag.  The code filters the sources only,    *)
(* so this is violated by a target.                                        *)
(***************************************************************************)
C18_OnlyReachableRegions ==
    /\ shown.kind = "flat" =>
           \A region \in Range(shown.profileData.regions) : ShownModelReaches(region)
    /\ shown.kind = "geo" =>
           \A source \in DOMAIN shown.profileData.sources :
               /\ ShownModelReaches(source)
               /\ \A target \in Range(shown.profileData.sources[source]) :
                      ShownModelReaches(target)

\* what the code guarantees: the regions of a flat list and the sources
C18_SourcesReachable ==
    /\ shown.kind = "flat" =>
           \A region \in Range(shown.profileData.regions) : ShownModelReaches(region)
    /\ shown.kind = "geo" =>
           \A source \in DOMAIN shown.profileData.sources : ShownModelReaches(source)

\* the failing input: a target the model has no US tag at, drawn on the map
C18_FailingInput ==
    /\ shown.kind = "geo"
    /\ shown.crisType = US
    /\ shown.modelId = IdSonnet
    /\ allModels[1] = modelObject(IdSonnet, RecordUsPair)
    /\ shown.activeSource = "us-east-1"
    /\ \E i \in 1..Len(mapMarkers) :
           /\ mapMarkers[i].region = "eu-west-2"
           /\ mapMarkers[i].role = "target"
    /\ ~ShownModelReaches("eu-west-2")

(***************************************************************************)
(* C20: no operation changes the loaded catalog: through every library     *)
(* call, filter event, map display and aggregation the library's catalog   *)
(* stays as it is, and once the page has loaded its models every model     *)
(* record (regions, inference_types, inferenceProfile) keeps the value it  *)
(* was loaded with.                                                        *)
(***************************************************************************)
C20_CatalogUnchanged ==
    [][/\ data' = data
       /\ page = "ready" => allModels' = allModels]_vars

\* the records right after loading are those of the fetched document
C20_LoadedAsFetched ==
    page = "ready" =>
        /\ Len(allModels) = Len(json)
        /\ \A i \in 1..Len(json) :
               /\ allModels[i].id = json[i][1]
               /\ \A field \in DOMAIN json[i][2] : allModels[i][field] = json[i][2][field]

\* the page after filtering, a map display and a marker click
C20_Witness ==
    /\ page = "ready"
    /\ selectedRegion = "us-east-1"
    /\ selectedType = "cris"
    /\ Len(filteredModels) < Len(allModels)
    /\ shown.kind = "geo"
    /\ shown.activeSource = "us-west-2"
    /\ allModels = [i \in 1..Len(json) |-> modelObject(json[i][1], json[i][2])]

\* the library after a resolver call
C20_WitnessLibrary ==
    /\ page = "none"
    /\ op = "crisModelId"
    /\ ret.kind = "return"
    /\ data \in DetCatalogs

\* the called record lacks regions or inference_types
CalledRecordMalformed ==
    /\ argId \in DOMAIN data
    /\ {"regions", "inference_types"} \ DOMAIN data[argId] # {}

(***************************************************************************)
(* C21: a document in which a record lacks regions or inference_types is   *)
(* rejected with a malformed-catalog error, and no lookup is served from   *)
(* that record.  The code has no such check: a lookup on the record is     *)
(* answered from the fields it has, so this is violated.                   *)
(***************************************************************************)
C21_MalformedRejected ==
    (op # "none" /\ CalledRecordMalformed) =>
        /\ ret.kind = "throw"
        /\ ret.error.msg = "MalformedCatalogError"

\* the failing input: availability answered from a record without inference_types
C21_FailingInput ==
    /\ op = "isModelAvailable"
    /\ argId = IdSonnet
    /\ argRegion = "us-east-1"
    /\ data[IdSonnet] = [regions |-> <<"us-east-1">>]
    /\ ret = Return(TRUE)

\* a lookup on such a record that reads the absent field ends in a TypeError
C21_FieldReadFails ==
    (op # "none" /\ readsAbsentField(op, argId, argRegion)) =>
        ret = Throw(PropertyTypeError)

\* hasCRIS of the page for the called model at the called region
CalledHasCRIS == hasCRIS(modelObject(argId, data[argId]), argRegion)

(***************************************************************************)
(* C22: for an available (model, region) pair crisModelId returns an       *)
(* identifier exactly when hasCRIS(model, region) is true and fails with   *)
(* the no-CRIS-support error exactly when it is not, whatever the tags.    *)
(* crisModelId takes every tag other than GLOBAL, ON_DEMAND, PROVISIONED   *)
(* for a geo profile while hasCRIS knows seven tags, so this is violated.  *)
(***************************************************************************)
C22_ResolverAgreesWithHasCRIS ==
    (op = "crisModelId" /\ Listed) =>
        /\ ret.kind = "return" <=> CalledHasCRIS = JsBool(TRUE)
        /\ Threw("does not support CRIS in region") <=> CalledHasCRIS # JsBool(TRUE)

\* the failing input: the only tag is AP, which hasCRIS does not know
C22_FailingInput ==
    /\ op = "crisModelId"
    /\ argId = IdSonnet
    /\ argRegion = "us-east-1"
    /\ Listed
    /\ RecordedList = <<AP>>
    /\ ret = Return(Prefixed(AP, IdSonnet))
    /\ CalledHasCRIS = JsBool(FALSE)

\* the two agree on the tags both know
C22_AgreeOnKnownTags ==
    (op = "crisModelId" /\ Listed /\ RecordedTags \subseteq {US, GLOBAL, ON_DEMAND}) =>
        (ret.kind = "return" <=> CalledHasCRIS = JsBool(TRUE))

\* String.prototype.toUpperCase, on lower-case letters
toUpperCase(s) ==
    [i \in 1..Len(s) |->
        IF \E c \in DOMAIN UpperToLower : UpperToLower[c] = s[i]
        THEN CHOOSE c \in DOMAIN UpperToLower : UpperToLower[c] = s[i]
        ELSE s[i]]

\* the part of an identifier before its first dot
BeforeFirstDot(s) ==
    LET dots == {i \in 1..Len(s) : s[i] = "."}
    IN IF dots = {} THEN s
       ELSE SubSeq(s, 1, (CHOOSE i \in dots : \A j \in dots : i <= j) - 1)

(***************************************************************************)
(* C23: whenever crisModelId(model, region) returns an identifier, the     *)
(* part before the first dot, upper-cased, is a member of                  *)
(* getInferenceProfiles(model, region).  A tag outside the list of         *)
(* getInferenceProfiles is still used as a prefix, so this is violated.    *)
(***************************************************************************)
C23_PrefixIsProfile ==
    (op = "crisModelId" /\ ret.kind = "return") =>
        includes(getInferenceProfiles(argId, argRegion).value,
                 toUpperCase(BeforeFirstDot(ret.value)))

\* the failing input: MX comes first and becomes the prefix
C23_FailingInput ==
    /\ op = "crisModelId"
    /\ argId = IdSonnet
    /\ argRegion = "us-east-1"
    /\ RecordedList = <<MX, US>>
    /\ ret = Return(Prefixed(MX, IdSonnet))
    /\ getInferenceProfiles(argId, argRegion) = Return(<<US>>)

\* the prefix is a profile whenever the tags are among those the lookup lists
C23_HoldsOnListedTags ==
    (op = "crisModelId" /\ ret.kind = "return" /\ MX \notin RecordedTags) =>
        includes(getInferenceProfiles(argId, argRegion).value,
                 toUpperCase(BeforeFirstDot(ret.value)))

\* the tags of a model at the selected region, or across all its
\* inference_types entries when no region is selected
TagsForFilter(model) ==
    IF selectedRegion # ""
    THEN IF selectedRegion \in DOMAIN model.inference_types
         THEN Range(model.inference_types[selectedRegion])
         ELSE {}
    ELSE UNION {Range(model.inference_types[r]) : r \in DOMAIN model.inference_types}

\* the model passes the three filters as they are set
PassesFilters(model) ==
    /\ stringIncludes(toLowerCase(model.id), toLowerCase(searchInput))
    /\ selectedRegion # "" => selectedRegion \in Range(model.regions)
    /\ selectedType = "global-cris" => GLOBAL \in TagsForFilter(model)
    /\ selectedType = "cris" => TagsForFilter(model) \cap Range(CRIS_REGIONS) # {}
    /\ selectedType = "on-demand" => ON_DEMAND \in TagsForFilter(model)

(***************************************************************************)
(* C24: after any sequence of search, region-selection and type-selection  *)
(* events filteredModels is exactly the models of allModels, in catalog    *)
(* order, whose id contains the search term case-insensitively, whose      *)
(* regions contain the selected region if one is selected, and that carry  *)
(* the selected type (global-cris: GLOBAL, cris: a CRIS tag, on-demand:    *)
(* ON_DEMAND) at the selected region, or at any region if none is          *)
(* selected.  The copy of the page under docs/ tests the type across all   *)
(* regions whatever region is selected, so there this is violated.         *)
(***************************************************************************)
C24_FilteredExactly ==
    page = "ready" =>
        LET passing == {i \in 1..Len(allModels) : PassesFilters(allModels[i])}
        IN /\ Len(filteredModels) = Cardinality(passing)
           /\ \A k \in 1..Len(filteredModels) : PassesFilters(filteredModels[k])
           /\ \A k \in 1..Len(filteredModels) :
                  \E i \in passing :
                      /\ filteredModels[k] = allModels[i]
                      /\ Cardinality({j \in passing : j < i}) = k - 1

\* the failing input: GLOBAL at eu-west-2 only, region us-east-1 selected
C24_FailingInput ==
    /\ page = "ready"
    /\ CRIS_PROFILE_REGIONS = <<>>
    /\ allModels[2] = modelObject(IdNova, RecordGlobalEu)
    /\ selectedRegion = "us-east-1"
    /\ selectedType = "global-cris"
    /\ \E k \in 1..Len(filteredModels) : filteredModels[k].id = IdNova

\* the page itself with the same filters: the model is left out
C24_PageLeavesOut ==
    /\ page = "ready"
    /\ allModels[2] = modelObject(IdNova, RecordGlobalEu)
    /\ selectedRegion = "us-east-1"
    /\ selectedType = "global-cris"
    /\ searchInput = <<"C", "3">>
    /\ filteredModels = <<>>

(***************************************************************************)
(* C25: the map shown for (profile, model), the model being in the         *)
(* catalog, draws the aggregated coverage entry of the profile restricted  *)
(* by the model's own tags: a region of a flat list is kept exactly when   *)
(* the model carries the profile's tag there, in the order of the list; a  *)
(* source of a geographic map is kept exactly when the model carries the   *)
(* tag at the source, with the aggregated target list unchanged.           *)
(***************************************************************************)
C25_TopologyRestrictedByTags ==
    shown.kind \in {"flat", "geo"} /\ findModel(allModels, shown.modelId) # 0 =>
        LET entry == CRIS_PROFILE_REGIONS[shown.crisType]
        IN IF entry.shape = "array"
           THEN LET kept == {i \in 1..Len(entry.regions) :
                                ShownModelReaches(entry.regions[i])}
                    regions == shown.profileData.regions
                IN /\ shown.kind = "flat"
                   /\ Len(regions) = Cardinality(kept)
                   /\ \A k \in 1..Len(regions) :
                          \E i \in kept :
                              /\ regions[k] = entry.regions[i]
                              /\ Cardinality({j \in kept : j < i}) = k - 1
           ELSE /\ shown.kind = "geo"
                /\ DOMAIN shown.profileData.sources =
                       {source \in DOMAIN entry.sources : ShownModelReaches(source)}
                /\ \A source \in DOMAIN shown.profileData.sources :
                       shown.profileData.sources[source] = entry.sources[source]

\* a geographic map from which the model's tags remove a source
C25_Witness ==
    /\ shown.kind = "geo"
    /\ findModel(allModels, shown.modelId) # 0
    /\ DOMAIN shown.profileData.sources # {}
    /\ DOMAIN shown.profileData.sources # DOMAIN CRIS_PROFILE_REGIONS[shown.crisType].sources

\* a flat list from which the model's tags remove a region
C25_WitnessFlat ==
    /\ shown.kind = "flat"
    /\ findModel(allModels, shown.modelId) # 0
    /\ shown.profileData.regions # <<>>
    /\ shown.profileData.regions # CRIS_PROFILE_REGIONS[shown.crisType].regions

\* a callback that will hide the modal is still pending
HidePending(name) ==
    \E i \in 1..Len(timers) : timers[i].kind = "hide" /\ timers[i].modal = name

(***************************************************************************)
(* C26: for any interleaving of showRegionMap / showAllRegions calls,      *)
(* closeMapModal / closeRegionsModal calls and timer callbacks, a modal    *)
(* that has been opened after its last close is displayed (display flex    *)
(* with the class show) until it is closed again: the pending hide timer   *)
(* of an earlier close never hides a reopened modal.  The code never       *)
(* cancels the hide timer, so this is violated.                            *)
(***************************************************************************)
C26_OpenModalDisplayed ==
    /\ mapModal.show => mapModal.display = "flex"
    /\ regionsModal.show => regionsModal.display = "flex"

\* the failing input: the map modal reopened, then hidden by the timer of
\* the close before
C26_FailingInput ==
    /\ mapModal.show
    /\ mapModal.display = "none"
    /\ ~HidePending("mapModal")

\* the same for the regions modal
C26_FailingInputRegions ==
    /\ regionsModal.show
    /\ regionsModal.display = "none"

\* what the code guarantees: an open modal is displayed as long as no hide
\* callback of it has run since it was opened
C26_HiddenOnlyByTimer ==
    [][/\ mapModal.show /\ mapModal'.show
          /\ mapModal.display = "flex" /\ mapModal'.display # "flex"
              => HidePending("mapModal") /\ Len(timers') = Len(timers) - 1
       /\ regionsModal.show /\ regionsModal'.show
          /\ regionsModal.display = "flex" /\ regionsModal'.display # "flex"
              => HidePending("regionsModal") /\ Len(timers') = Len(timers) - 1]_vars

\* the pending callbacks of showRegionMap calls
PendingDraws(pending) == {i \in 1..Len(pending) : pending[i].kind = "draw"}

\* region and role of the markers a showRegionMap(crisType, modelId) call
\* is to draw, read from the coverage map and the model's tags
MarkersBuiltFor(crisType, modelId) ==
    IF crisType \notin DOMAIN CRIS_PROFILE_REGIONS THEN {}
    ELSE LET entry == CRIS_PROFILE_REGIONS[crisType]
             model == allModels[findModel(allModels, modelId)]
             reaches(region) ==
                 /\ region \in DOMAIN model.inference_types
                 /\ crisType \in Range(model.inference_types[region])
         IN IF entry.shape = "array"
            THEN {[region |-> r, role |-> "region"] :
                     r \in {x \in Range(entry.regions) \cap REGION_LOCATIONS : reaches(x)}}
            ELSE LET kept == {x \in DOMAIN entry.sources : reaches(x)}
                     targets == IF selectedRegion \in kept
                                THEN Range(entry.sources[selectedRegion])
                                         \ {selectedRegion}
                                ELSE {}
                 IN {[region |-> r, role |-> "source"] : r \in kept \cap REGION_LOCATIONS}
                    \cup {[region |-> r, role |-> "target"] :
                             r \in targets \cap REGION_LOCATIONS}

(***************************************************************************)
(* C27: after any sequence of showRegionMap calls, once every pending      *)
(* 100 ms callback has run, the markers on the map and in mapMarkers are   *)
(* exactly the markers built for the most recent call: the callback that   *)
(* leaves no other callback of showRegionMap pending belongs to the most   *)
(* recent call, and after it the map and mapMarkers hold that call's       *)
(* markers, once each, and nothing of an earlier call.  At all times the   *)
(* markers on the map are those of mapMarkers.                             *)
(***************************************************************************)
C27_MarkersOfLastCall ==
    [][/\ map'.kind = "map" => map'.layers = mapMarkers'
       /\ Cardinality(PendingDraws(timers)) = 1 /\ PendingDraws(timers') = {} =>
              LET call == timers[CHOOSE i \in PendingDraws(timers) : TRUE]
                  built == MarkersBuiltFor(call.crisType, call.modelId)
              IN /\ {[region |-> mapMarkers'[k].region, role |-> mapMarkers'[k].role] :
                        k \in 1..Len(mapMarkers')} = built
                 /\ Len(mapMarkers') = Cardinality(built)
                 /\ map'.layers = mapMarkers']_vars

\* the markers of a call on the map, no callback pending
C27_Witness ==
    /\ timers = <<>>
    /\ shown.kind = "geo"
    /\ shown.activeSource = selectedRegion
    /\ selectedRegion # ""
    /\ Len(mapMarkers) > 1
    /\ map.layers = mapMarkers
    /\ map.layers # updateMapState(shown.profileData.sources, shown.keys, "")

\* the markers of one call on the map while the callback of a later call
\* for another profile is pending
C27_WitnessEarlierCall ==
    /\ shown.kind = "geo"
    /\ mapMarkers # <<>>
    /\ Len(timers) = 1
    /\ timers[1].kind = "draw"
    /\ timers[1].crisType = GLOBAL

(***************************************************************************)
(* C28: showRegionMap calls map.fitBounds only with bounds that at least   *)
(* one marker drawn for that call has extended, for flat and geographic    *)
(* profiles alike: whenever the view last asked for is a fit, its bounds   *)
(* hold the location of a marker of mapMarkers.  For a geographic profile  *)
(* the callback fits the bounds it created itself, which only the markers  *)
(* of a flat profile extend, so this is violated.                          *)
(***************************************************************************)
C28_FitsExtendedBounds ==
    map.kind = "map" /\ map.view = "fit" =>
        \E i \in 1..Len(mapMarkers) : mapMarkers[i].region \in map.bounds

\* the failing input: a geographic profile drawn, the view fitted to
\* bounds that nothing has extended
C28_FailingInput ==
    /\ shown.kind = "geo"
    /\ shown.crisType = US
    /\ mapMarkers # <<>>
    /\ map.view = "fit"
    /\ map.bounds = {}

\* what the code guarantees: a fit to bounds that nothing has extended
\* comes from the callback for a geographic profile only; a flat profile
\* and a marker click fit the bounds of all their markers
C28_FlatFitsItsMarkers ==
    /\ map.kind = "map" /\ map.view = "fit" /\ map.bounds = {} =>
           shown.kind = "geo" /\ mapMarkers # <<>>
    /\ map.kind = "map" /\ map.view = "fit" /\ map.bounds # {} =>
           map.bounds = boundsOf(mapMarkers)

\* a flat profile drawn and fitted to its markers
C28_WitnessFlat ==
    /\ shown.kind = "flat"
    /\ map.view = "fit"
    /\ map.bounds # {}

(***************************************************************************)
(* C29: after every updateMapState call mapMarkers holds at most one       *)
(* marker per region code: one for each source with a known location and   *)
(* one for each target of the active source that is not already drawn as   *)
(* a source.  The code leaves out only the target that is the active       *)
(* source itself, so a target that is another source is drawn twice and    *)
(* this is violated.                                                       *)
(***************************************************************************)
C29_OneMarkerPerRegion ==
    shown.kind = "geo" =>
        /\ \A i, j \in 1..Len(mapMarkers) :
               mapMarkers[i].region = mapMarkers[j].region => i = j
        /\ {mapMarkers[i].region : i \in 1..Len(mapMarkers)} =
               (DOMAIN shown.profileData.sources
                \cup (IF shown.activeSource # ""
                      THEN Range(shown.profileData.sources[shown.activeSource])
                      ELSE {}))
               \cap REGION_LOCATIONS

\* the failing input: a target of the active source that is a source too,
\* with two markers
C29_FailingInput ==
    /\ shown.kind = "geo"
    /\ \E i, j \in 1..Len(mapMarkers) :
           /\ mapMarkers[i].region = mapMarkers[j].region
           /\ mapMarkers[i].role = "source"
           /\ mapMarkers[j].role = "target"
           /\ mapMarkers[i].region # shown.activeSource

\* what the code guarantees: one marker per source with a known location,
\* one per target of the active source other than the active source, and
\* no marker apart from these
C29_OnePerSourceAndPerTarget ==
    shown.kind = "geo" =>
        LET sources == DOMAIN shown.profileData.sources \cap REGION_LOCATIONS
            targets == IF shown.activeSource # ""
                       THEN (Range(shown.profileData.sources[shown.activeSource])
                                 \cap REGION_LOCATIONS) \ {shown.activeSource}
                       ELSE {}
            markersOf(region, role) ==
                {i \in 1..Len(mapMarkers) :
                    mapMarkers[i].region = region /\ mapMarkers[i].role = role}
        IN /\ \A region \in sources : Cardinality(markersOf(region, "source")) = 1
           /\ \A region \in targets : Cardinality(markersOf(region, "target")) = 1
           /\ Len(mapMarkers) = Cardinality(sources) + Cardinality(targets)

(***************************************************************************)
(* C30: after any sequence of clicks on the region button, on the type     *)
(* button, on an option of either dropdown, inside a dropdown and          *)
(* elsewhere in the document, the region dropdown and the type dropdown    *)
(* are never both open.                                                    *)
(***************************************************************************)
C30_NeverBothOpen == ~(dropdownOpen.region /\ dropdownOpen.type)

\* the type dropdown open after a region has been chosen from the other
C30_Witness ==
    /\ dropdownOpen.type
    /\ ~dropdownOpen.region
    /\ selectedRegion # ""

\* the region dropdown open after a type has been chosen from the other
C30_WitnessRegionOpen ==
    /\ dropdownOpen.region
    /\ selectedType # ""

====
